---------------------------- MODULE Spec2Model ----------------------------
(***************************************************************************)
(* A model of microb: the configuration resolver (config.NewConfigFromBytes*)
(* and config.GetPythonVersion), the script compiler                      *)
(* (dockerfile.Microb2Dockerfile) and the multi-platform build            *)
(* orchestrator (llb.Build).                                              *)
(*                                                                         *)
(* Six specifications share the module:                                    *)
(*   SpecBuild    llb.Build with one goroutine per target platform         *)
(*   SpecResolve  config.NewConfigFromBytes, called twice on one input     *)
(*   SpecVersion  config.GetPythonVersion as a pure function               *)
(*   SpecCompile  dockerfile.Microb2Dockerfile, called twice on one config *)
(*   SpecLock     resolving and compiling two manifests with one lock file *)
(*   SpecDecode   decoding the poetry section of a manifest                *)
(***************************************************************************)
EXTENDS Integers, Sequences, FiniteSets, TLC

VARIABLES
    \* ---- llb.Build ----
    bpc,              \* position of Build's own goroutine
    directive,        \* opts["platform"], split at "," (<<>>: absent or empty)
    targetPlatforms,  \* []*ocispecs.Platform (IsNil: the nil pointer)
    spawned,          \* number of eg.Go calls made so far
    tpc,              \* position of each platform goroutine
    tres,             \* each goroutine's buildResult
    finalResult,      \* client.Result shared by the goroutines
    exportPlatforms,  \* exptypes.Platforms.Platforms, one slot per platform
    egErr,            \* errgroup's err (set once)
    cancelled,        \* the errgroup context is cancelled
    ret,              \* what Build returned
    writers,          \* who wrote which shared object (history)
    completed,        \* goroutines in the order they recorded their slot (history)
    calls,            \* engine calls made by each goroutine and what they returned (history)
    \* ---- config.GetPythonVersion / findVersion ----
    vpc,              \* "call" before the functions are applied, "done" after
    vRequires,        \* the requires argument (raw text)
    vCandidate,       \* the candidate argument (raw text)
    vResult,          \* what GetPythonVersion returned
    vOldResult,       \* what findVersion returned
    \* ---- config.NewConfigFromBytes ----
    rpc,              \* "first", "second", "done": two resolutions of one input
    rInput,           \* the decoded pyproject.toml and the config.Options
    rFirst,           \* what the first call returned
    rSecond,          \* what the second call returned
    \* ---- dockerfile.Microb2Dockerfile ----
    cpc,              \* "first", "second", "done": two compilations of one input
    cInput,           \* the Config and the dockerfile.Options
    cHeap,            \* the Config behind the pointer and the package's two maps
    cFirst,           \* the script of the first call
    cSecond,          \* the script of the second call
    \* ---- resolving and compiling two manifests that share a lock file ----
    lpc,              \* "first", "second", "done"
    lInput,           \* a manifest, another dependency list, both options
    lFirst,           \* config and script of the manifest
    lSecond,          \* config and script of the manifest with the other list
    \* ---- toml.Decode of the poetry section ----
    dpc,              \* "call" before NewConfigFromBytes decodes, "done" after
    dInput,           \* the authors and the python dependency as TOML values
    dResult           \* how the decoding ended

buildVars == <<bpc, directive, targetPlatforms, spawned, tpc, tres, finalResult,
               exportPlatforms, egErr, cancelled, ret, writers, completed, calls>>

versionVars == <<vpc, vRequires, vCandidate, vResult, vOldResult>>

resolveVars == <<rpc, rInput, rFirst, rSecond>>

compileVars == <<cpc, cInput, cHeap, cFirst, cSecond>>

lockVars == <<lpc, lInput, lFirst, lSecond>>

decodeVars == <<dpc, dInput, dResult>>

vars == <<buildVars, versionVars, resolveVars, compileVars, lockVars, decodeVars>>

(***************************************************************************)
(* Bounds                                                                  *)
(***************************************************************************)
MaxPlatforms == 2

MaxClauses == 2

MaxDeps == 2

MaxAuthors == 2

(***************************************************************************)
(* Small helpers for Go maps                                               *)
(***************************************************************************)
EmptyMap == [x \in {} |-> x]

MapPut(m, k, v) == [x \in (DOMAIN m) \cup {k} |-> IF x = k THEN v ELSE m[x]]

Range(s) == {s[i] : i \in DOMAIN s}

(***************************************************************************)
(* Platforms (containerd/platforms as called by parsePlatforms and         *)
(* buildImage)                                                             *)
(***************************************************************************)
PlatformNames == {"linux/amd64", "linux/arm64", "linux/arm64/v8", "bogus"}

ZeroPlatform == [isNil |-> FALSE, os |-> "", arch |-> "", variant |-> ""]

NilPlatform == [isNil |-> TRUE, os |-> "", arch |-> "", variant |-> ""]

\* platforms.Parse: ok is FALSE for a specifier it rejects. A three-part
\* arm64 specifier keeps the variant v8.
PlatformsParse(name) ==
    CASE name = "linux/amd64" ->
            [ok |-> TRUE, p |-> [isNil |-> FALSE, os |-> "linux", arch |-> "amd64", variant |-> ""]]
      [] name = "linux/arm64" ->
            [ok |-> TRUE, p |-> [isNil |-> FALSE, os |-> "linux", arch |-> "arm64", variant |-> ""]]
      [] name = "linux/arm64/v8" ->
            [ok |-> TRUE, p |-> [isNil |-> FALSE, os |-> "linux", arch |-> "arm64", variant |-> "v8"]]
      [] OTHER -> [ok |-> FALSE, p |-> ZeroPlatform]

\* platforms.Normalize: arm64 with variant v8 is plain arm64.
PlatformsNormalize(p) ==
    IF p.arch = "arm64" /\ p.variant = "v8" THEN [p EXCEPT !.variant = ""] ELSE p

\* platforms.DefaultSpec: the host's platform.
PlatformsDefaultSpec == [isNil |-> FALSE, os |-> "linux", arch |-> "amd64", variant |-> ""]

\* platforms.Format: path.Join(os, arch, variant), empty parts dropped.
PlatformsFormat(p) ==
    IF p.variant = "" THEN <<p.os, p.arch>> ELSE <<p.os, p.arch, p.variant>>

\* parsePlatforms: every element is parsed, then normalized; the first
\* element that does not parse fails the whole list.
parsePlatforms(v) ==
    IF \E i \in DOMAIN v : ~PlatformsParse(v[i]).ok
    THEN [ok |-> FALSE, pp |-> <<>>]
    ELSE [ok |-> TRUE,
          pp |-> [i \in DOMAIN v |-> PlatformsNormalize(PlatformsParse(v[i]).p)]]

(***************************************************************************)
(* Raw text: what strings.Split(s, "\n") yields, each line with the        *)
(* whitespace around it (pad) apart from what strings.TrimSpace keeps      *)
(* (body)                                                                  *)
(***************************************************************************)
Line(pad, body) == [pad |-> pad, body |-> body]

\* strings.TrimSpace(strings.Split(s, "\n")[0])
FirstLineTrimmed(raw) == raw[1].body

(***************************************************************************)
(* hashicorp/go-version as called by GetPythonVersion and findVersion      *)
(***************************************************************************)
VersionTable ==
    ("3.6" :> <<3, 6, 0>>) @@ ("3.7" :> <<3, 7, 0>>) @@ ("3.8" :> <<3, 8, 0>>) @@
    ("3.9" :> <<3, 9, 0>>) @@ ("3.10" :> <<3, 10, 0>>) @@ ("3.11" :> <<3, 11, 0>>) @@
    ("3.12" :> <<3, 12, 0>>) @@ ("3.13" :> <<3, 13, 0>>) @@ ("3.11.4" :> <<3, 11, 4>>)

\* version.NewVersion: the segments of a well-formed version, an error
\* otherwise ("junk", the empty string).
NewVersion(text) ==
    IF text \in DOMAIN VersionTable
    THEN [ok |-> TRUE, segments |-> VersionTable[text]]
    ELSE [ok |-> FALSE, segments |-> <<0, 0, 0>>]

\* Version.Compare: -1, 0 or 1, segment by segment.
VersionCompare(a, b) ==
    IF a[1] # b[1] THEN (IF a[1] < b[1] THEN -1 ELSE 1)
    ELSE IF a[2] # b[2] THEN (IF a[2] < b[2] THEN -1 ELSE 1)
    ELSE IF a[3] # b[3] THEN (IF a[3] < b[3] THEN -1 ELSE 1)
    ELSE 0

\* The comparison operators of a constraint ("~>" is left out of the model;
\* anything else, "^" for one, does not parse).
ConstraintOperators == {"", "=", "!=", ">", "<", ">=", "<="}

\* version.NewConstraint: the text is split at "," and every piece must be
\* an operator followed by a well-formed version.
NewConstraint(clauses) ==
    IF \A i \in DOMAIN clauses :
          clauses[i].op \in ConstraintOperators /\ NewVersion(clauses[i].ver).ok
    THEN [ok |-> TRUE, clauses |-> clauses]
    ELSE [ok |-> FALSE, clauses |-> <<>>]

\* One constraint of a Constraints value against a version.
ClauseCheck(clause, v) ==
    LET c == VersionCompare(v, NewVersion(clause.ver).segments)
    IN  CASE clause.op \in {"", "="} -> c = 0
          [] clause.op = "!=" -> c # 0
          [] clause.op = ">" -> c = 1
          [] clause.op = "<" -> c = -1
          [] clause.op = ">=" -> c >= 0
          [] clause.op = "<=" -> c <= 0

\* Constraints.Check: every constraint holds.
ConstraintsCheck(cons, v) ==
    \A i \in DOMAIN cons.clauses : ClauseCheck(cons.clauses[i], v)

(***************************************************************************)
(* config.GetPythonVersion (flavors.go) and the earlier findVersion        *)
(* (config.go)                                                             *)
(***************************************************************************)
ALLOWED_PYTHON_VERSIONS == <<"3.12", "3.11", "3.10", "3.9", "3.8", "3.7", "3.6">>

FindVersionList == <<"3.11", "3.10", "3.9", "3.8", "3.7", "3.6">>

VersionOk(v) == [err |-> "", version |-> v]

VersionErr(e) == [err |-> e, version |-> ""]

\* for _, target := range list: the first entry the constraints accept.
FirstAllowed(cons, list) ==
    LET hits == {i \in DOMAIN list : ConstraintsCheck(cons, NewVersion(list[i]).segments)}
    IN  IF hits = {}
        THEN VersionErr("no version satisfies the constraint")
        ELSE VersionOk(list[CHOOSE i \in hits : \A j \in hits : i <= j])

\* The same loop without the constraints.Check guard.
GetPythonVersionUnchecked(requires, candidate) ==
    LET req  == FirstLineTrimmed(requires)
        cand == FirstLineTrimmed(candidate)
        cons == NewConstraint(req)
    IN  IF ~cons.ok THEN VersionErr("malformed constraint")
        ELSE IF cand # ""
        THEN IF ~NewVersion(cand).ok THEN VersionErr("version is not valid")
             ELSE VersionOk(cand)
        ELSE VersionOk(ALLOWED_PYTHON_VERSIONS[1])

\* The same function falling back to the list when the candidate is refused.
GetPythonVersionFallback(requires, candidate) ==
    LET req  == FirstLineTrimmed(requires)
        cand == FirstLineTrimmed(candidate)
        cons == NewConstraint(req)
    IN  IF ~cons.ok THEN VersionErr("malformed constraint")
        ELSE IF cand # "" /\ NewVersion(cand).ok
                /\ ConstraintsCheck(cons, NewVersion(cand).segments)
        THEN VersionOk(cand)
        ELSE FirstAllowed(cons, ALLOWED_PYTHON_VERSIONS)

GetPythonVersion(requires, candidate) ==
    LET req  == FirstLineTrimmed(requires)
        cand == FirstLineTrimmed(candidate)
        cons == NewConstraint(req)
    IN  IF ~cons.ok THEN VersionErr("malformed constraint")
        ELSE IF cand # ""
        THEN IF ~NewVersion(cand).ok THEN VersionErr("version is not valid")
             ELSE IF ConstraintsCheck(cons, NewVersion(cand).segments)
             THEN VersionOk(cand)
             ELSE VersionErr("version does not satisfy the constraint")
        ELSE FirstAllowed(cons, ALLOWED_PYTHON_VERSIONS)

\* findVersion takes the requirement and the target version as they are.
findVersion(requires, target) ==
    LET cons == NewConstraint(requires)
    IN  IF ~cons.ok THEN VersionErr("malformed constraint")
        ELSE IF target # ""
        THEN IF ~NewVersion(target).ok THEN VersionErr("version is not valid")
             ELSE IF ConstraintsCheck(cons, NewVersion(target).segments)
             THEN VersionOk(target)
             ELSE VersionErr("version does not satisfy the requirement")
        ELSE FirstAllowed(cons, FindVersionList)

(***************************************************************************)
(* The pure version functions applied to bounded inputs                    *)
(***************************************************************************)
ClauseVersions == {"3.6", "3.8", "3.12", "3.13", ""}

ClauseOperators == {">=", "<", "^"}

Clauses == [op : ClauseOperators, ver : ClauseVersions]

\* requires-python values: up to MaxClauses comma-separated pieces on one
\* line (the empty string is one empty piece).
RequiresTexts ==
    {<<Line(FALSE, c)>> : c \in UNION {[1..n -> Clauses] : n \in 1..MaxClauses}}

\* Candidate versions: absent, plain, followed by a line break, surrounded
\* by blanks, preceded by a line break, not a version.
CandidateTexts ==
    { <<Line(FALSE, "")>>,
      <<Line(FALSE, "3.9")>>,
      <<Line(FALSE, "3.11"), Line(FALSE, "")>>,
      <<Line(TRUE, "3.13")>>,
      <<Line(FALSE, "3.11.4")>>,
      <<Line(FALSE, ""), Line(FALSE, "3.7")>>,
      <<Line(FALSE, "junk")>> }

NoVersionResult == [err |-> "", version |-> ""]

VersionIdle ==
    /\ vpc = "idle"
    /\ vRequires = <<>>
    /\ vCandidate = <<>>
    /\ vResult = NoVersionResult
    /\ vOldResult = NoVersionResult

(***************************************************************************)
(* config: the decoded manifest, the options and the Config                *)
(***************************************************************************)
\* The empty string.
EmptyText == <<Line(FALSE, "")>>

\* requires-python = "": one empty comma-separated piece.
EmptyRequires == <<Line(FALSE, <<[op |-> "", ver |-> ""]>>)>>

\* MicrobTarget with every field omitted.
ZeroTarget ==
    [Flavor |-> "", Entrypoint |-> <<>>, Command |-> <<>>, PythonVersion |-> EmptyText,
     Requirements |-> "", Indices |-> <<>>, Extras |-> <<>>, Env |-> <<>>, Labels |-> <<>>,
     BuildDeps |-> <<>>, SystemDeps |-> <<>>, CopyFiles |-> <<>>,
     CopyFilesBeforeBuild |-> <<>>, AddFiles |-> <<>>, AddFilesBeforeBuild |-> <<>>]

\* Index with every field omitted but the url.
ZeroIndex ==
    [Url |-> "https://pypi.example/simple", Username |-> "", UsernameSecret |-> "",
     Password |-> "", PasswordSecret |-> "", Trust |-> FALSE]

\* The nil *Config returned with an error.
ZeroConfig ==
    [Flavor |-> "", Name |-> "", Authors |-> <<>>, PythonVersion |-> "",
     Entrypoint |-> <<>>, Command |-> <<>>, Env |-> <<>>, Labels |-> <<>>,
     BuildDeps |-> <<>>, SystemDeps |-> <<>>, Indices |-> <<>>, Dependencies |-> <<>>,
     DependenciesUseSsh |-> FALSE, DependenciesUseGit |-> FALSE, Requirements |-> "",
     CopyFiles |-> <<>>, CopyFilesBeforeBuild |-> <<>>, AddFiles |-> <<>>,
     AddFilesBeforeBuild |-> <<>>]

ResolveOk(c) == [err |-> "", config |-> c]

ResolveErr(e) == [err |-> e, config |-> ZeroConfig]

\* strings.Contains(line, sub) for the lines and the substrings of the model.
StringsContains(line, sub) ==
    CASE sub = "git+ssh://" -> line \in {"lib@git+ssh://git@h/lib"}
      [] sub = "git+ssh"    -> line \in {"lib@git+ssh://git@h/lib"}
      [] sub = "git+"       -> line \in {"lib@git+ssh://git@h/lib", "tool@git+https://h/tool"}
      [] OTHER -> FALSE

\* All orders of the elements of a set: what ranging over a Go map yields.
Orders(S) == {q \in [1..Cardinality(S) -> S] : Range(q) = S}

\* utils.Unique: the distinct entries, in the order the map iteration gives.
Unique(slice) == Orders(Range(slice))

\* defaultTarget: the first name the iteration over the target map yields.
defaultTarget(targets) ==
    IF DOMAIN targets = {}
    THEN {[name |-> "", ok |-> FALSE]}
    ELSE {[name |-> n, ok |-> TRUE] : n \in DOMAIN targets}

DefaultFlavor == "debian"

\* The same function with every flavor accepted as it is written.
FlavorUnchecked(flavor) ==
    [flavor |-> IF flavor = "" THEN DefaultFlavor ELSE flavor, ok |-> TRUE]

\* Flavor: debian and alpine are kept, the empty flavor is the default.
Flavor(flavor) ==
    CASE flavor \in {"debian", "alpine"} -> [flavor |-> flavor, ok |-> TRUE]
      [] flavor = "" -> [flavor |-> DefaultFlavor, ok |-> TRUE]
      [] OTHER -> [flavor |-> "", ok |-> FALSE]

isUsingSsh(requirements) ==
    \E i \in DOMAIN requirements : StringsContains(requirements[i], "git+ssh://")

isUsingGit(requirements) ==
    \E i \in DOMAIN requirements : StringsContains(requirements[i], "git+")

getBuildDeps(indices, buildDeps, dependenciesUseSsh, dependenciesUseGit) ==
    LET needJq == \E i \in DOMAIN indices :
                     indices[i].UsernameSecret # "" \/ indices[i].PasswordSecret # ""
    IN  buildDeps
          \o (IF dependenciesUseSsh THEN <<"openssh-client">> ELSE <<>>)
          \o (IF dependenciesUseGit THEN <<"git">> ELSE <<>>)
          \o (IF needJq THEN <<"jq">> ELSE <<>>)

\* dependencies = append(dependencies, extraDeps...) for the first n extras.
RECURSIVE WithExtras(_, _, _, _)
WithExtras(dependencies, optional, extras, n) ==
    IF n = 0 THEN dependencies
    ELSE WithExtras(dependencies, optional, extras, n - 1) \o optional[extras[n]]

\* The same function with an undeclared extra left out instead of refused.
getPythonDepsSkipUnknown(pyproject, extras) ==
    LET declared == SelectSeq(extras, LAMBDA e : e \in DOMAIN pyproject.OptionalDependencies)
    IN  {[err |-> "", deps |-> d] :
            d \in Unique(WithExtras(pyproject.Dependencies,
                                    pyproject.OptionalDependencies, declared, Len(declared)))}

\* getPythonDeps: the possible results (one per order Unique may give).
getPythonDeps(pyproject, extras) ==
    IF \E i \in DOMAIN extras : extras[i] \notin DOMAIN pyproject.OptionalDependencies
    THEN {[err |-> "extra not found", deps |-> <<>>]}
    ELSE {[err |-> "", deps |-> d] :
            d \in Unique(WithExtras(pyproject.Dependencies,
                                    pyproject.OptionalDependencies, extras, Len(extras)))}

\* The constraint NewConfigFromBytes solves: poetry's python dependency when
\* the manifest has a poetry section, requires-python otherwise.
RequiresPythonOf(pyproject) ==
    IF pyproject.PoetryName # "" THEN pyproject.PoetryPython ELSE pyproject.RequiresPython

\* NewConfigFromBytes when the manifest defines no target.
MinimalConfig(pyproject, options) ==
    LET pv == GetPythonVersion(RequiresPythonOf(pyproject), options.ReadPythonVersion)
    IN  IF pv.err # "" THEN ResolveErr(pv.err)
        ELSE ResolveOk([ZeroConfig EXCEPT
                 !.Flavor = DefaultFlavor,
                 !.Name = pyproject.Name,
                 !.Authors = pyproject.Authors,
                 !.PythonVersion = pv.version,
                 !.Dependencies = pyproject.Dependencies,
                 !.DependenciesUseSsh = isUsingSsh(pyproject.Dependencies),
                 !.DependenciesUseGit = isUsingGit(pyproject.Dependencies)])

\* The same function with the requirements/extras validation left out.
TargetConfigsUnvalidated(pyproject, options, target) ==
    IF target \notin DOMAIN pyproject.Target THEN {ResolveErr("target not found")}
    ELSE
    LET tc     == pyproject.Target[target]
        fl     == Flavor(tc.Flavor)
        cand   == IF tc.PythonVersion = EmptyText
                  THEN options.ReadPythonVersion ELSE tc.PythonVersion
        pv     == GetPythonVersion(RequiresPythonOf(pyproject), cand)
        reqs   == options.ReadRequirements
    IN  IF ~fl.ok THEN {ResolveErr("unknown flavor")}
        ELSE IF pv.err # "" THEN {ResolveErr(pv.err)}
        ELSE UNION {
          IF pd.err # "" THEN {ResolveErr(pd.err)}
          ELSE IF tc.Requirements # "" /\ reqs.err # "" THEN {ResolveErr(reqs.err)}
          ELSE LET src == IF tc.Requirements # "" THEN reqs.lines ELSE pd.deps
                   ssh == isUsingSsh(src)
                   git == isUsingGit(src)
               IN  {ResolveOk([ZeroConfig EXCEPT
                      !.Flavor = fl.flavor, !.Name = pyproject.Name,
                      !.Authors = pyproject.Authors, !.PythonVersion = pv.version,
                      !.Entrypoint = tc.Entrypoint, !.Command = tc.Command,
                      !.Env = tc.Env, !.Labels = tc.Labels,
                      !.BuildDeps = getBuildDeps(tc.Indices, tc.BuildDeps, ssh, git),
                      !.SystemDeps = tc.SystemDeps, !.Dependencies = pd.deps,
                      !.Requirements = tc.Requirements,
                      !.DependenciesUseSsh = ssh, !.DependenciesUseGit = git,
                      !.Indices = tc.Indices, !.CopyFiles = tc.CopyFiles,
                      !.CopyFilesBeforeBuild = tc.CopyFilesBeforeBuild,
                      !.AddFiles = tc.AddFiles,
                      !.AddFilesBeforeBuild = tc.AddFilesBeforeBuild])}
          : pd \in getPythonDeps(pyproject, tc.Extras)}

\* NewConfigFromBytes from "Get the target config" on: the checks in the
\* order of the code, then the Config.
TargetConfigs(pyproject, options, target) ==
    IF target \notin DOMAIN pyproject.Target THEN {ResolveErr("target not found")}
    ELSE
    LET tc == pyproject.Target[target]
        fl == Flavor(tc.Flavor)
        cand == IF tc.PythonVersion = EmptyText
                THEN options.ReadPythonVersion ELSE tc.PythonVersion
        pv == GetPythonVersion(RequiresPythonOf(pyproject), cand)
    IN  IF ~fl.ok THEN {ResolveErr("unknown flavor")}
        ELSE IF pv.err # "" THEN {ResolveErr(pv.err)}
        ELSE IF tc.Requirements # "" /\ Len(tc.Extras) > 0
        THEN {ResolveErr("using requirements is not allowed together with extras")}
        ELSE TargetConfigsUnvalidated(pyproject, options, target)

\* NewConfigFromBytes: every result the call can give for a decoded manifest
\* (the choices are those of Go's map iteration).
NewConfigFromBytes(pyproject, options) ==
    IF options.Target = ""
    THEN UNION {IF ~dt.ok THEN {MinimalConfig(pyproject, options)}
                ELSE TargetConfigs(pyproject, options, dt.name)
                : dt \in defaultTarget(pyproject.Target)}
    ELSE TargetConfigs(pyproject, options, options.Target)

(***************************************************************************)
(* NewConfigFromBytes applied twice to bounded inputs                      *)
(***************************************************************************)
Requires(clauses) == <<Line(FALSE, clauses)>>

AtLeast38Below312 == Requires(<<[op |-> ">=", ver |-> "3.8"], [op |-> "<", ver |-> "3.12"]>>)

ZeroPyProject ==
    [Name |-> "app", Authors |-> <<>>, RequiresPython |-> AtLeast38Below312,
     Dependencies |-> <<>>, OptionalDependencies |-> <<>>,
     PoetryName |-> "", PoetryPython |-> EmptyRequires, Target |-> <<>>]

UnreadableLock == [err |-> "open requirements.txt: file does not exist", lines |-> <<>>]

ZeroOptions ==
    [Target |-> "", ReadPythonVersion |-> EmptyText, ReadRequirements |-> UnreadableLock]

\* A second target, the same in every manifest that has it.
OtherTarget == [ZeroTarget EXCEPT !.Flavor = "alpine", !.PythonVersion = <<Line(FALSE, "3.8")>>]

\* The target maps of a manifest: none, one target, two targets.
TargetMaps(a) == {<<>>, "a" :> a, ("a" :> a) @@ ("b" :> OtherTarget)}

\* Inputs that vary what decides the interpreter version and the target.
VersionInputs ==
    {[pyproject |-> [ZeroPyProject EXCEPT
                        !.RequiresPython = req, !.PoetryName = poetry.name,
                        !.PoetryPython = poetry.python, !.Target = targets],
      options   |-> [ZeroOptions EXCEPT !.Target = name, !.ReadPythonVersion = pin]] :
        req \in {EmptyRequires, AtLeast38Below312,
                 Requires(<<[op |-> ">=", ver |-> "3.13"]>>),
                 Requires(<<[op |-> ">=", ver |-> "3.8"]>>)},
        poetry \in {[name |-> "", python |-> EmptyRequires],
                    [name |-> "app", python |-> Requires(<<[op |-> ">=", ver |-> "3.6"],
                                                           [op |-> "<", ver |-> "3.8"]>>)],
                    [name |-> "app", python |-> Requires(<<[op |-> "^", ver |-> "3.8"]>>)]},
        targets \in UNION {TargetMaps([ZeroTarget EXCEPT !.PythonVersion = pv, !.Flavor = fl]) :
                     pv \in {EmptyText, <<Line(FALSE, "3.9")>>, <<Line(FALSE, "3.13")>>,
                             <<Line(FALSE, "junk")>>},
                     fl \in {"", "alpine", "bogus"}},
        name \in {"", "a", "zz"},
        pin \in {EmptyText, <<Line(FALSE, "3.10"), Line(FALSE, "")>>,
                 <<Line(FALSE, "3.7")>>, <<Line(FALSE, ""), Line(FALSE, "3.9")>>}}

DependencyNames == {"requests", "tool@git+https://h/tool", "lib@git+ssh://git@h/lib"}

DependencyLists == UNION {[1..n -> DependencyNames] : n \in 0..MaxDeps}

\* target.requirements and what the callback reads for it.
LockFiles ==
    {[path |-> "", read |-> UnreadableLock],
     [path |-> "requirements.txt", read |-> UnreadableLock],
     [path |-> "requirements.txt", read |-> [err |-> "", lines |-> <<"requests">>]],
     [path |-> "requirements.txt",
      read |-> [err |-> "", lines |-> <<"requests", "lib@git+ssh://git@h/lib">>]]}

\* The one target of these inputs: its version, extras, build packages and
\* indices vary, its requirements path is the given one.
DependencyTargets(path) ==
    {[ZeroTarget EXCEPT !.PythonVersion = pv, !.Extras = extras,
                        !.Requirements = path, !.BuildDeps = bd, !.Indices = ix] :
        pv \in {EmptyText, <<Line(FALSE, "3.13")>>},
        extras \in {<<>>, <<"dev">>, <<"nope">>},
        bd \in {<<>>, <<"git">>},
        ix \in {<<>>, <<[ZeroIndex EXCEPT !.PasswordSecret = "pypi-token"]>>}}

\* The target named, the target left to the default, no target at all.
Selections(path) ==
    UNION {{[targets |-> "a" :> t, name |-> "a"],
            [targets |-> "a" :> t, name |-> ""],
            [targets |-> <<>>, name |-> ""]} : t \in DependencyTargets(path)}

\* Inputs that vary the dependencies, the extras, the lock file, the build
\* packages and the indices of the one target.
DependencyInputs ==
    UNION {
      {[pyproject |-> [ZeroPyProject EXCEPT
                          !.Dependencies = deps,
                          !.OptionalDependencies =
                              "dev" :> <<"requests", "lib@git+ssh://git@h/lib">>,
                          !.Target = sel.targets],
        options   |-> [ZeroOptions EXCEPT !.Target = sel.name,
                                          !.ReadRequirements = lock.read]] :
          deps \in DependencyLists, sel \in Selections(lock.path)}
      : lock \in LockFiles}

ResolveInputs == VersionInputs \cup DependencyInputs

NotResolved == [err |-> "", config |-> ZeroConfig]

ResolveIdle ==
    /\ rpc = "idle"
    /\ rInput = [pyproject |-> ZeroPyProject, options |-> ZeroOptions]
    /\ rFirst = NotResolved
    /\ rSecond = NotResolved

(***************************************************************************)
(* dockerfile: the script as the sequence of its instructions, each the    *)
(* sequence of its words                                                   *)
(***************************************************************************)
defaultEnvs ==
    ("PIP_DISABLE_PIP_VERSION_CHECK" :> "1") @@ ("PIP_NO_WARN_SCRIPT_LOCATION" :> "0") @@
    ("PIP_USER" :> "1") @@ ("PYTHONPYCACHEPREFIX" :> "$HOME/.pycache")

defaulLabels ==
    ("org.opencontainers.image.description" :> "autogenerated by microb") @@
    ("moby.buildkit.frontend" :> "microb") @@ ("microb.version" :> "v1")

\* The same union with the entries of map1 kept on a collision.
UnionMap1Wins(map1, map2) == map1 @@ map2

\* utils.Union: the entries of map2 overwrite those of map1.
Union(map1, map2) == map2 @@ map1

\* shell.Expand with placeholders[key] as the environment: "$VERSION" is the
\* one value of the model that holds a parameter; a key the map lacks reads
\* as the empty string.
ShellExpand(v, placeholders) ==
    IF v = "$VERSION"
    THEN IF "VERSION" \in DOMAIN placeholders THEN placeholders["VERSION"] ELSE ""
    ELSE v

RECURSIVE Flatten(_)
Flatten(seqs) == IF seqs = <<>> THEN <<>> ELSE Head(seqs) \o Flatten(Tail(seqs))

fromBuilder(c) ==
    << <<"FROM", "docker.io/python", c.PythonVersion,
         IF c.Flavor = "alpine" THEN "-alpine" ELSE "", "AS builder">> >>

updateBuildDeps(c, requirementsUseSsh) ==
    LET needJq == \E i \in DOMAIN c.Indices :
                     c.Indices[i].UsernameSecret # "" \/ c.Indices[i].PasswordSecret # ""
        needGit == \E i \in DOMAIN c.Dependencies : StringsContains(c.Dependencies[i], "git+")
        needOpenssh == \E i \in DOMAIN c.Dependencies :
                          StringsContains(c.Dependencies[i], "git+ssh")
        add(deps, need, dep) ==
            IF need /\ dep \notin Range(deps) THEN Append(deps, dep) ELSE deps
    IN  add(add(add(c.BuildDeps, needJq, "jq"),
                needGit \/ requirementsUseSsh, "git"),
            needOpenssh \/ requirementsUseSsh, "openssh-client")

installBuildDepsApt(c, requirementsUseSsh) ==
    LET deps == updateBuildDeps(c, requirementsUseSsh)
    IN  IF deps = <<>> THEN <<>>
        ELSE << <<"RUN", "--mount=type=cache,target=/var/cache/apt,sharing=locked",
                  "--mount=type=cache,target=/var/lib/apt,sharing=locked",
                  "apt-get update && apt-get install -y --no-install-recommends">> \o deps >>

installBuildDepsApk(c, requirementsUseSsh) ==
    LET deps == updateBuildDeps(c, requirementsUseSsh)
    IN  IF deps = <<>> THEN <<>>
        ELSE << <<"RUN", "--mount=type=cache,target=/var/cache/apk,sharing=locked",
                  "apk add">> \o deps >>

\* The keys of the environment maps of the model, in the order env writes them.
EnvKeys ==
    <<"APP_MODE", "APP_VERSION", "PIP_DISABLE_PIP_VERSION_CHECK",
      "PIP_NO_WARN_SCRIPT_LOCATION", "PIP_USER", "PYTHONPYCACHEPREFIX">>

\* env: the preparation stage sets the default and the user environment
\* variables, the same way on every call.
env(envs, placeholders) ==
    LET keys == SelectSeq(EnvKeys, LAMBDA k : k \in DOMAIN envs)
    IN  [i \in DOMAIN keys |-> <<"ENV", keys[i], ShellExpand(envs[keys[i]], placeholders)>>]

CopyInstruction(f) ==
    IF f.From # "" THEN <<"COPY", "--from", f.From, f.Source, f.Destination>>
    ELSE <<"COPY", f.Source, f.Destination>>

AddInstructions(f) ==
    (IF f.Checksum # "" THEN << <<"ADD", "--checksum", f.Checksum, f.Source, f.Destination>> >>
     ELSE <<>>) \o << <<"ADD", f.Source, f.Destination>> >>

copyBeforeBuild(c) ==
    IF Len(c.CopyFilesBeforeBuild) > 0
    THEN [i \in DOMAIN c.CopyFiles |-> CopyInstruction(c.CopyFiles[i])]
    ELSE <<>>

addBeforeBuild(c) ==
    Flatten([i \in DOMAIN c.AddFilesBeforeBuild |-> AddInstructions(c.AddFilesBeforeBuild[i])])

\* The same options with the plain credential winning over the secret.
indicesPlainFirst(c) ==
    <<"--retries 2">> \o Flatten([i \in DOMAIN c.Indices |->
        LET index == c.Indices[i]
            hasUser == index.UsernameSecret # "" \/ index.Username # ""
            hasPass == index.PasswordSecret # "" \/ index.Password # ""
            user == IF ~hasUser THEN <<"", "">>
                    ELSE IF index.Username # "" THEN <<"literal", index.Username>>
                    ELSE <<"secret", index.UsernameSecret>>
            pass == IF ~hasUser \/ ~hasPass THEN <<"", "">>
                    ELSE IF index.Password # "" THEN <<"literal", index.Password>>
                    ELSE <<"secret", index.PasswordSecret>>
        IN  <<"--extra-index-url", index.Url>> \o user \o pass
              \o (IF index.Trust THEN <<"--trusted-host", index.Url>> ELSE <<>>)])

\* indices: the pip options of the extra indices; a credential is written
\* as its kind ("", "literal", "secret") and its value or secret id.
indices(c) ==
    <<"--retries 2">> \o Flatten([i \in DOMAIN c.Indices |->
        LET index == c.Indices[i]
            hasUser == index.UsernameSecret # "" \/ index.Username # ""
            hasPass == index.PasswordSecret # "" \/ index.Password # ""
            user == IF ~hasUser THEN <<"", "">>
                    ELSE IF index.UsernameSecret # "" THEN <<"secret", index.UsernameSecret>>
                    ELSE <<"literal", index.Username>>
            pass == IF ~hasUser \/ ~hasPass THEN <<"", "">>
                    ELSE IF index.PasswordSecret # "" THEN <<"secret", index.PasswordSecret>>
                    ELSE <<"literal", index.Password>>
        IN  <<"--extra-index-url", index.Url>> \o user \o pass
              \o (IF index.Trust THEN <<"--trusted-host", index.Url>> ELSE <<>>)])

\* The secret mounts of a pip instruction: password first, then username.
SecretMounts(c) ==
    Flatten([i \in DOMAIN c.Indices |->
        (IF c.Indices[i].PasswordSecret # ""
         THEN <<"--mount=type=secret", c.Indices[i].PasswordSecret>> ELSE <<>>)
        \o (IF c.Indices[i].UsernameSecret # ""
            THEN <<"--mount=type=secret", c.Indices[i].UsernameSecret>> ELSE <<>>)])

SshMount(useSsh) ==
    IF useSsh THEN <<"--mount=type=ssh,required=true",
                     "GIT_SSH_COMMAND='ssh -o StrictHostKeyChecking=no'">>
    ELSE <<>>

installPythonDeps(c) ==
    IF Len(c.Dependencies) = 0 THEN <<>>
    ELSE LET useSsh == \E i \in DOMAIN c.Dependencies :
                          StringsContains(c.Dependencies[i], "git+ssh")
         IN  << <<"RUN", "--mount=type=cache,target=/root/.cache">> \o SecretMounts(c)
                  \o SshMount(useSsh) \o <<"python -m pip install --user">> \o indices(c)
                  \o c.Dependencies >>

installPythonDepsFromRequirements(c, useSsh) ==
    << <<"COPY", c.Requirements, "/requirements.txt">>,
       <<"RUN", "--mount=type=cache,target=/root/.cache">> \o SecretMounts(c)
         \o SshMount(useSsh) \o <<"python -m pip install --user">> \o indices(c)
         \o <<"-r", "/requirements.txt">> >>

installPythonProject(c) ==
    << <<"COPY", ".", "/projectdir">>,
       <<"RUN", "--mount=type=cache,target=/root/.cache",
         "python -m pip install --no-deps /projectdir">> >>

clearCachedDataFromInstall(c) ==
    IF Len(c.Dependencies) > 0 THEN << <<"RUN", "find /root/.local/lib/python*/ ...">> >>
    ELSE <<>>

\* The same stage with the files copied after the project is installed.
buildStageCopyLast(c, options) ==
    fromBuilder(c)
      \o (IF c.Flavor = "debian" THEN installBuildDepsApt(c, options.RequirementsUseSsh)
          ELSE installBuildDepsApk(c, options.RequirementsUseSsh))
      \o env(Union(defaultEnvs, c.Env), options.Placeholders)
      \o (IF c.Requirements # ""
          THEN installPythonDepsFromRequirements(c, options.RequirementsUseSsh)
          ELSE installPythonDeps(c))
      \o installPythonProject(c)
      \o copyBeforeBuild(c)
      \o addBeforeBuild(c)
      \o clearCachedDataFromInstall(c)

\* buildStage for a flavor the code supports (log.Fatalf otherwise).
buildStage(c, options) ==
    fromBuilder(c)
      \o (IF c.Flavor = "debian" THEN installBuildDepsApt(c, options.RequirementsUseSsh)
          ELSE installBuildDepsApk(c, options.RequirementsUseSsh))
      \o env(Union(defaultEnvs, c.Env), options.Placeholders)
      \o copyBeforeBuild(c)
      \o addBeforeBuild(c)
      \o (IF c.Requirements # ""
          THEN installPythonDepsFromRequirements(c, options.RequirementsUseSsh)
          ELSE installPythonDeps(c))
      \o installPythonProject(c)
      \o clearCachedDataFromInstall(c)

\* The same image with the slim tag whatever the flavor.
fromFinalStageSlim(c) ==
    << <<"FROM", "python", c.PythonVersion, "-slim">> >>

fromFinalStage(c) ==
    << <<"FROM", "python", c.PythonVersion,
         CASE c.Flavor = "alpine" -> "-alpine" [] c.Flavor = "debian" -> "-slim"
           [] OTHER -> "">> >>

installSystemDepsWithApt(c) ==
    IF Len(c.SystemDeps) > 0
    THEN << <<"RUN", "apt-get update && apt-get install -y --no-install-recommends">>
              \o c.SystemDeps \o <<"&& rm -rf /var/lib/apt/lists/*">> >>
    ELSE <<>>

installSystemDepsWithApk(c) ==
    IF Len(c.SystemDeps) > 0
    THEN << <<"RUN", "apk add --no-cache">> \o c.SystemDeps >>
    ELSE <<>>

createNonRootUser(c) ==
    << IF c.Flavor = "alpine"
       THEN <<"RUN", "addgroup 65532 && adduser -u 65532 -G 65532 -h /home/nonroot -D nonroot">>
       ELSE <<"RUN", "useradd --uid=65532 --user-group --home-dir=/home/nonroot --create-home nonroot">>,
       <<"USER", "65532:65532">> >>

copyFiles(c) ==
    << <<"COPY", "--from", "builder", "/root/.local", "/home/nonroot/.local">>,
       <<"ENV", "PATH", "$PATH:/home/nonroot/.local/bin">> >>
      \o [i \in DOMAIN c.CopyFiles |-> CopyInstruction(c.CopyFiles[i])]

addFiles(c) ==
    Flatten([i \in DOMAIN c.AddFiles |-> AddInstructions(c.AddFiles[i])])

addEntrypointAndCommand(c) ==
    (IF Len(c.Entrypoint) > 0 THEN << <<"ENTRYPOINT">> \o c.Entrypoint >> ELSE <<>>)
      \o (IF Len(c.Command) > 0 THEN << <<"CMD">> \o c.Command >> ELSE <<>>)

\* addEnvironmentVariables: one ENV per entry, in the order the iteration
\* over the Go map gives; the set of the texts a call can produce.
addEnvironmentVariables(envs, placeholders) ==
    {[i \in DOMAIN keys |-> <<"ENV", keys[i], ShellExpand(envs[keys[i]], placeholders)>>] :
        keys \in Orders(DOMAIN envs)}

\* addLabels: one LABEL per entry, in the order the iteration over the Go
\* map gives; the set of the texts a call can produce.
addLabels(labels, placeholders) ==
    {[i \in DOMAIN keys |-> <<"LABEL", keys[i], ShellExpand(labels[keys[i]], placeholders)>>] :
        keys \in Orders(DOMAIN labels)}

addAuthorsLabels(c) ==
    IF Len(c.Authors) > 0
    THEN << <<"LABEL", "org.opencontainers.image.authors">>
              \o Flatten([i \in DOMAIN c.Authors |-> <<c.Authors[i].Name, c.Authors[i].Email>>]) >>
    ELSE <<>>

\* The same stage with the user created and selected after the files are
\* copied and added.
runStageUserLast(c, placeholders) ==
    {fromFinalStage(c)
       \o (IF c.Flavor = "debian" THEN installSystemDepsWithApt(c)
           ELSE installSystemDepsWithApk(c))
       \o copyFiles(c) \o addFiles(c) \o createNonRootUser(c) \o addEntrypointAndCommand(c)
       \o envs \o labels \o addAuthorsLabels(c) :
         envs \in addEnvironmentVariables(c.Env, placeholders),
         labels \in addLabels(Union(defaulLabels, c.Labels), placeholders)}

\* runStage for a flavor the code supports: every text a call can produce.
runStage(c, placeholders) ==
    {fromFinalStage(c)
       \o (IF c.Flavor = "debian" THEN installSystemDepsWithApt(c)
           ELSE installSystemDepsWithApk(c))
       \o createNonRootUser(c) \o copyFiles(c) \o addFiles(c) \o addEntrypointAndCommand(c)
       \o envs \o labels \o addAuthorsLabels(c) :
         envs \in addEnvironmentVariables(c.Env, placeholders),
         labels \in addLabels(Union(defaulLabels, c.Labels), placeholders)}

Compiled(script) == [fatal |-> FALSE, script |-> script]

\* log.Fatalf("unsupported flavor: ..."): the process exits.
Fatal == [fatal |-> TRUE, script |-> <<>>]

\* Microb2Dockerfile: every result a call can give for a Config.
Microb2Dockerfile(c, options) ==
    IF c.Flavor \notin {"debian", "alpine"} THEN {Fatal}
    ELSE {Compiled(buildStage(c, options) \o run) : run \in runStage(c, options.Placeholders)}

(***************************************************************************)
(* Microb2Dockerfile applied twice to bounded inputs                       *)
(***************************************************************************)
ZeroDockerfileOptions == [Placeholders |-> <<>>, RequirementsUseSsh |-> FALSE]

BaseConfig == [ZeroConfig EXCEPT !.Flavor = "debian", !.Name = "app", !.PythonVersion = "3.11"]

\* Inputs that vary the environment, the labels and the build parameters.
MapInputs ==
    {[config  |-> [BaseConfig EXCEPT !.Flavor = fl, !.Env = e, !.Labels = l],
      options |-> [ZeroDockerfileOptions EXCEPT !.Placeholders = ph]] :
        fl \in {"debian", "alpine"},
        e \in {<<>>, "APP_MODE" :> "prod",
               ("APP_MODE" :> "prod") @@ ("APP_VERSION" :> "$VERSION")},
        l \in {<<>>, "microb.version" :> "custom", "app.version" :> "$VERSION"},
        ph \in {<<>>, "VERSION" :> "1.2"}}

LicenseCopy == [From |-> "", Source |-> "LICENSE", Destination |-> "/LICENSE"]

ToolCopy == [From |-> "tools", Source |-> "/bin/tool", Destination |-> "/usr/local/bin/tool"]

\* Inputs that vary the flavor, the dependencies, the lock file, the
\* indices, the packages, the files, the entrypoint and the authors.
FileInputs ==
    {[config  |-> [BaseConfig EXCEPT
                     !.Flavor = fl, !.Dependencies = deps, !.Requirements = req,
                     !.Indices = ix, !.BuildDeps = pk.build, !.SystemDeps = pk.system,
                     !.CopyFiles = cp.after, !.CopyFilesBeforeBuild = cp.before,
                     !.AddFiles = ad.after, !.AddFilesBeforeBuild = ad.before,
                     !.Entrypoint = pk.entrypoint, !.Command = pk.command,
                     !.Authors = pk.authors],
      options |-> [ZeroDockerfileOptions EXCEPT !.RequirementsUseSsh = ssh]] :
        fl \in {"debian", "alpine", ""},
        deps \in {<<>>, <<"requests">>, <<"requests", "lib@git+ssh://git@h/lib">>},
        req \in {"", "requirements.txt"},
        ssh \in BOOLEAN,
        ix \in {<<>>, <<[ZeroIndex EXCEPT !.Username = "bob", !.PasswordSecret = "pypi-token",
                                          !.Password = "hunter2", !.Trust = TRUE]>>},
        pk \in {[build |-> <<>>, system |-> <<>>, entrypoint |-> <<>>, command |-> <<>>,
                 authors |-> <<>>],
                [build |-> <<"git", "gcc">>, system |-> <<"libpq5">>,
                 entrypoint |-> <<"python", "-m", "app">>, command |-> <<"--help">>,
                 authors |-> <<[Name |-> "Ann", Email |-> "ann@example.org"]>>]},
        cp \in {[after |-> <<>>, before |-> <<>>],
                [after |-> <<LicenseCopy>>, before |-> <<>>],
                [after |-> <<>>, before |-> <<ToolCopy>>],
                [after |-> <<LicenseCopy>>, before |-> <<ToolCopy>>]},
        ad \in {[after |-> <<>>, before |-> <<>>],
                [after |-> <<[Checksum |-> "sha256:aa", Source |-> "https://h/a.tgz",
                              Destination |-> "/opt/a.tgz"]>>,
                 before |-> <<[Checksum |-> "", Source |-> "https://h/b.tgz",
                               Destination |-> "/opt/b.tgz"]>>]}}

\* Inputs that vary the credentials of the one index.
IndexInputs ==
    {[config  |-> [BaseConfig EXCEPT
                     !.Dependencies = <<"requests">>, !.Requirements = req,
                     !.Indices = <<[ZeroIndex EXCEPT
                                      !.Username = user.plain, !.UsernameSecret = user.secret,
                                      !.Password = pass.plain, !.PasswordSecret = pass.secret]>>],
      options |-> ZeroDockerfileOptions] :
        req \in {"", "requirements.txt"},
        user \in [plain : {"", "bob"}, secret : {"", "pypi-user"}],
        pass \in [plain : {"", "hunter2"}, secret : {"", "pypi-token"}]}

CompileInputs == MapInputs \cup FileInputs \cup IndexInputs

NotCompiled == [fatal |-> FALSE, script |-> <<>>]

\* The memory a call shares with its caller: the Config the pointer c refers
\* to and the package-level maps defaultEnvs and defaulLabels.
HeapOf(c) == [config |-> c, defaultEnvs |-> defaultEnvs, defaulLabels |-> defaulLabels]

\* The same call with the inferred packages appended to c.BuildDeps itself.
Microb2DockerfileAppendsInPlace(heap, options) ==
    [heap EXCEPT !.config.BuildDeps = updateBuildDeps(heap.config, options.RequirementsUseSsh)]

\* The shared memory after a call of Microb2Dockerfile: updateBuildDeps
\* appends to a copy of c.BuildDeps, utils.Union fills a map of its own, and
\* no other statement assigns to a field of c or to a package-level map.
Microb2DockerfileWrites(heap, options) == heap

CompileIdle ==
    /\ cpc = "idle"
    /\ cInput = [config |-> BaseConfig, options |-> ZeroDockerfileOptions]
    /\ cHeap = HeapOf(BaseConfig)
    /\ cFirst = NotCompiled
    /\ cSecond = NotCompiled

(***************************************************************************)
(* Build up to the script: readMicrobConfig, then Microb2Dockerfile, for   *)
(* two manifests that differ in their dependency list only                 *)
(***************************************************************************)
NotBuilt == [resolved |-> NotResolved, compiled |-> NotCompiled]

\* The config of a manifest and the script compiled from it; no script when
\* the resolution fails.
ResolveAndCompile(pyproject, options, dockerfileOptions) ==
    UNION {IF r.err # "" THEN {[resolved |-> r, compiled |-> NotCompiled]}
           ELSE {[resolved |-> r, compiled |-> d] :
                   d \in Microb2Dockerfile(r.config, dockerfileOptions)}
           : r \in NewConfigFromBytes(pyproject, options)}

\* The flavor of the one target and the name the caller passes, or a manifest
\* without targets.
LockSelections ==
    {[flavor |-> fl, name |-> "a"] : fl \in {"", "alpine", "bogus"}}
      \cup {[flavor |-> "", name |-> ""]}

LockInput(deps, deps2, lock, ssh, sel) ==
    [pyproject |-> [ZeroPyProject EXCEPT
                       !.Dependencies = deps,
                       !.Target = IF sel.name = "" THEN <<>>
                                  ELSE "a" :> [ZeroTarget EXCEPT !.Flavor = sel.flavor,
                                                                 !.Requirements = lock.path]],
     other     |-> deps2,
     options   |-> [ZeroOptions EXCEPT !.Target = sel.name, !.ReadRequirements = lock.read],
     dockerfileOptions |-> [ZeroDockerfileOptions EXCEPT !.RequirementsUseSsh = ssh]]

\* A manifest whose target names a lock file, the dependency list of the
\* other manifest, what the lock file reads as, and the compiler's options;
\* then the same manifests with another flavor or without targets.
LockInputs ==
    {LockInput(deps, deps2, lock, ssh, [flavor |-> "", name |-> "a"]) :
        deps \in DependencyLists,
        deps2 \in {<<>>} \cup {<<d>> : d \in DependencyNames},
        lock \in {l \in LockFiles : l.path # ""},
        ssh \in BOOLEAN}
    \cup
    {LockInput(deps, <<>>, lock, FALSE, sel) :
        deps \in DependencyLists,
        lock \in {l \in LockFiles : l.path # ""},
        sel \in LockSelections}

LockIdle ==
    /\ lpc = "idle"
    /\ lInput = [pyproject |-> ZeroPyProject, other |-> <<>>, options |-> ZeroOptions,
                 dockerfileOptions |-> ZeroDockerfileOptions]
    /\ lFirst = NotBuilt
    /\ lSecond = NotBuilt

(***************************************************************************)
(* toml.Decode of [tool.poetry]: the values that have an UnmarshalTOML     *)
(***************************************************************************)
\* A TOML value as the decoder hands it to UnmarshalTOML is a record: its
\* kind ("string", "integer", or "table" for map[string]interface{}), the
\* text of a string and the fields of a table.
\* mail.ParseAddress for the texts of the model: a name with an address in
\* angle brackets, a bare address, and a text without an address (nil, err).
MailParseAddress(text) ==
    CASE text = "Ann <ann@example.org>" ->
           [ok |-> TRUE, Name |-> "Ann", Address |-> "ann@example.org"]
      [] text = "ann@example.org" ->
           [ok |-> TRUE, Name |-> "", Address |-> "ann@example.org"]
      [] OTHER -> [ok |-> FALSE, Name |-> "", Address |-> ""]

\* (*PoetryAuthor).UnmarshalTOML: addr.Address is read before err is
\* looked at, and addr is nil when the text does not parse.
PoetryAuthorUnmarshalTOML(value) ==
    IF value.kind # "string" THEN "error"
    ELSE IF ~MailParseAddress(value.text).ok THEN "panic"
    ELSE "ok"

\* (*PoetryDependency).UnmarshalTOML: v.(string) panics when the version of
\* a table is not a string.
PoetryDependencyUnmarshalTOML(value) ==
    CASE value.kind = "string" -> "ok"
      [] value.kind # "table" -> "error"
      [] "version" \notin DOMAIN value.fields -> "error"
      [] value.fields["version"].kind # "string" -> "panic"
      [] OTHER -> "ok"

\* How the decoding of a list of values ends: at the first value that does
\* not decode.
RECURSIVE FirstFailure(_)
FirstFailure(outcomes) ==
    IF outcomes = <<>> THEN "ok"
    ELSE IF Head(outcomes) # "ok" THEN Head(outcomes)
    ELSE FirstFailure(Tail(outcomes))

\* toml.Decode into PyProject, for the keys authors and dependencies of
\* [tool.poetry]: the keys of a table are decoded in the order of a Go map
\* iteration, the elements of an array in their order; every end the call
\* can have ("ok", "error": Decode returns an error, "panic").
Decode(manifest) ==
    LET authors == [i \in DOMAIN manifest.authors |->
                      PoetryAuthorUnmarshalTOML(manifest.authors[i])]
        dependencies == [i \in DOMAIN manifest.dependencies |->
                           PoetryDependencyUnmarshalTOML(manifest.dependencies[i])]
    IN  {FirstFailure(authors \o dependencies), FirstFailure(dependencies \o authors)}

\* NewConfigFromBytes up to the check of Decode's error: it goes on with the
\* decoded manifest ("decoded"), returns the decode error, or panics and
\* does not return.
NewConfigFromBytesDecode(manifest) ==
    {CASE end = "ok" -> "decoded"
       [] end = "error" -> "failed to decode pyproject.toml content"
       [] OTHER -> "panic" :
        end \in Decode(manifest)}

\* Manifests whose poetry section has up to MaxAuthors authors and at most
\* the python dependency, each value of any of the shapes.
DecodeInputs ==
    LET TomlString(text) == [kind |-> "string", text |-> text, fields |-> <<>>]
        TomlInteger == [kind |-> "integer", text |-> "", fields |-> <<>>]
        TomlTable(fields) == [kind |-> "table", text |-> "", fields |-> fields]
    IN
    {[authors |-> a, dependencies |-> d] :
        a \in UNION {[1..n -> {TomlString("Ann <ann@example.org>"), TomlString("ann@example.org"),
                               TomlString("Ann"), TomlInteger,
                               TomlTable("name" :> TomlString("Ann"))}] : n \in 0..MaxAuthors},
        d \in {<<>>} \cup
              {<<v>> : v \in {TomlString(">=3.8"), TomlInteger,
                              TomlTable("version" :> TomlString(">=3.8")),
                              TomlTable("version" :> TomlInteger),
                              TomlTable("git" :> TomlString("https://h/tool"))}}}

DecodeIdle ==
    /\ dpc = "idle"
    /\ dInput = [authors |-> <<>>, dependencies |-> <<>>]
    /\ dResult = "not called"

(***************************************************************************)
(* Build: results and errors                                               *)
(***************************************************************************)
NoError == [kind |-> "", task |-> 0]

NilRef == [isNil |-> TRUE, task |-> 0]

NilResult == [isNil |-> TRUE, meta |-> EmptyMap, refs |-> EmptyMap, ref |-> NilRef]

\* client.NewResult()
NewResult == [isNil |-> FALSE, meta |-> EmptyMap, refs |-> EmptyMap, ref |-> NilRef]

ZeroExportPlatform == [ID |-> <<>>, Platform |-> ZeroPlatform]

ZeroBuildResult ==
    [Reference |-> NilRef, ImageConfig |-> <<>>, BuildInfo |-> <<>>,
     Platform |-> NilPlatform, MultiPlatform |-> FALSE,
     ExportPlatform |-> ZeroExportPlatform]

ExporterImageConfigKey == "containerimage.config"

ExporterBuildInfo == "containerimage.buildinfo"

ExporterPlatformsKey == "refs.platforms"

\* isMultiPlatform := len(targetPlatforms) > 1
IsMultiPlatformRelaxed(tps) == Len(tps) >= 1

IsMultiPlatform(tps) == Len(tps) > 1

\* The metadata key AddToClientResult writes: fmt.Sprintf("%s/%s", key, ID)
\* for a multi-platform result, the bare key otherwise.
MetaKey(br, key) ==
    IF br.MultiPlatform THEN <<key>> \o br.ExportPlatform.ID ELSE <<key>>

\* exportPlatforms.Platforms[i] = result.ExportPlatform: the slot a goroutine
\* writes is the index of its platform in targetPlatforms.
SlotIndexByCompletion(i, slots) ==
    IF \E j \in DOMAIN slots : slots[j] = ZeroExportPlatform
    THEN CHOOSE j \in DOMAIN slots :
            /\ slots[j] = ZeroExportPlatform
            /\ \A k \in DOMAIN slots : slots[k] = ZeroExportPlatform => j <= k
    ELSE i

SlotIndex(i, slots) == i

\* The end of Build: eg.Wait()'s error wins and the result is dropped.
BuildReturnPartial(err, result) == [done |-> TRUE, err |-> err, result |-> result]

BuildReturn(err, result) ==
    IF err # NoError
    THEN [done |-> TRUE, err |-> err, result |-> NilResult]
    ELSE [done |-> TRUE, err |-> NoError, result |-> result]

NotReturned == [done |-> FALSE, err |-> NoError, result |-> NilResult]

\* buildImage's ExportPlatform: the target platform, or the host's when the
\* target platform is nil; its ID is the formatted platform.
ExportPlatformOf(platform) ==
    LET p == IF platform.isNil THEN PlatformsDefaultSpec ELSE platform
    IN  [ID |-> PlatformsFormat(p), Platform |-> p]

(***************************************************************************)
(* Build: the initial state and the steps                                  *)
(***************************************************************************)
Directives ==
    UNION {[1..n -> PlatformNames] : n \in 0..MaxPlatforms}

Tasks == DOMAIN targetPlatforms

BuildIdle ==
    /\ bpc = "start"
    /\ targetPlatforms = <<>>
    /\ spawned = 0
    /\ tpc = <<>>
    /\ tres = <<>>
    /\ finalResult = NilResult
    /\ exportPlatforms = <<>>
    /\ egErr = NoError
    /\ cancelled = FALSE
    /\ ret = NotReturned
    /\ writers = {}
    /\ completed = <<>>
    /\ calls = <<>>

InitBuild ==
    /\ directive \in Directives
    /\ BuildIdle
    /\ VersionIdle
    /\ ResolveIdle
    /\ CompileIdle
    /\ LockIdle
    /\ DecodeIdle

\* Build up to the loop: the manifest is read and compiled, .dockerignore and
\* the cache imports are read, the platforms are parsed.  Every one of these
\* returns early with an error.
BuildPrepare ==
    /\ bpc = "start"
    /\ \E early \in {"", "pyproject", "dockerignore", "cache"} :
         LET parsed == IF directive # <<>> THEN parsePlatforms(directive)
                       ELSE [ok |-> TRUE, pp |-> <<NilPlatform>>]
             failure == IF early # "" THEN early
                        ELSE IF ~parsed.ok THEN "platform" ELSE ""
         IN  IF failure # ""
             THEN /\ bpc' = "done"
                  /\ ret' = BuildReturn([kind |-> failure, task |-> 0], NilResult)
                  /\ UNCHANGED <<targetPlatforms, spawned, tpc, tres, finalResult,
                                 exportPlatforms, calls>>
             ELSE /\ bpc' = "spawn"
                  /\ targetPlatforms' = parsed.pp
                  /\ spawned' = 0
                  /\ tpc' = [i \in DOMAIN parsed.pp |-> "idle"]
                  /\ tres' = [i \in DOMAIN parsed.pp |-> ZeroBuildResult]
                  /\ calls' = [i \in DOMAIN parsed.pp |-> <<>>]
                  /\ exportPlatforms' = [i \in DOMAIN parsed.pp |-> ZeroExportPlatform]
                  /\ finalResult' = NewResult
                  /\ ret' = ret
    /\ UNCHANGED <<directive, egErr, cancelled, writers, completed>>

\* One iteration of the loop: eg.Go starts the goroutine of the next platform.
BuildSpawn ==
    /\ bpc = "spawn"
    /\ IF spawned < Len(targetPlatforms)
       THEN /\ spawned' = spawned + 1
            /\ tpc' = [tpc EXCEPT ![spawned + 1] = "convert"]
            /\ tres' = [tres EXCEPT ![spawned + 1] =
                          [ZeroBuildResult EXCEPT
                              !.Platform = targetPlatforms[spawned + 1],
                              !.MultiPlatform = IsMultiPlatform(targetPlatforms)]]
            /\ bpc' = bpc
       ELSE /\ bpc' = "wait"
            /\ UNCHANGED <<spawned, tpc, tres>>
    /\ UNCHANGED <<directive, targetPlatforms, finalResult, exportPlatforms, egErr,
                   cancelled, ret, writers, completed, calls>>

\* The same return with every error recorded over the one before.
TaskFailsLastWins(i, kind) ==
    /\ tpc' = [tpc EXCEPT ![i] = "failed"]
    /\ egErr' = [kind |-> kind, task |-> i]
    /\ cancelled' = TRUE

\* A goroutine returns a non-nil error: errgroup keeps the first one and
\* cancels the shared context.
TaskFails(i, kind) ==
    /\ tpc' = [tpc EXCEPT ![i] = "failed"]
    /\ IF egErr = NoError
       THEN /\ egErr' = [kind |-> kind, task |-> i]
            /\ cancelled' = TRUE
       ELSE UNCHANGED <<egErr, cancelled>>

\* What an engine call made with the errgroup's context can return.
EngineOutcomes == {"ok", "error"} \cup (IF cancelled THEN {"canceled"} ELSE {})

\* buildImage: dockerfile2llb.Dockerfile2LLB and the marshalling of its image.
TaskConvert(i) ==
    /\ tpc[i] = "convert"
    /\ \E out \in EngineOutcomes :
         /\ calls' = [calls EXCEPT ![i] = Append(@, <<"convert", out>>)]
         /\ IF out = "ok"
            THEN /\ tpc' = [tpc EXCEPT ![i] = "solve"]
                 /\ tres' = [tres EXCEPT ![i].ImageConfig = <<"config", i>>]
                 /\ UNCHANGED <<egErr, cancelled>>
            ELSE /\ TaskFails(i, IF out = "canceled" THEN "canceled" ELSE "convert")
                 /\ tres' = tres
    /\ UNCHANGED <<bpc, directive, targetPlatforms, spawned, finalResult,
                   exportPlatforms, ret, writers, completed>>

\* buildImage: c.Solve, res.SingleRef, the build info and the export platform.
TaskSolve(i) ==
    /\ tpc[i] = "solve"
    /\ \E out \in EngineOutcomes :
         /\ calls' = [calls EXCEPT ![i] = Append(@, <<"solve", out>>)]
         /\ IF out = "ok"
            THEN /\ tpc' = [tpc EXCEPT ![i] = "addconfig"]
                 /\ tres' = [tres EXCEPT
                               ![i].Reference = [isNil |-> FALSE, task |-> i],
                               ![i].BuildInfo = <<"buildinfo", i>>,
                               ![i].ExportPlatform = ExportPlatformOf(tres[i].Platform)]
                 /\ UNCHANGED <<egErr, cancelled>>
            ELSE /\ TaskFails(i, IF out = "canceled" THEN "canceled" ELSE "solve")
                 /\ tres' = tres
    /\ UNCHANGED <<bpc, directive, targetPlatforms, spawned, finalResult,
                   exportPlatforms, ret, writers, completed>>

\* AddToClientResult, first cr.AddMeta (the image configuration).
TaskAddConfig(i) ==
    /\ tpc[i] = "addconfig"
    /\ finalResult' = [finalResult EXCEPT
           !.meta = MapPut(@, MetaKey(tres[i], ExporterImageConfigKey), tres[i].ImageConfig)]
    /\ writers' = writers \cup {[task |-> i, object |-> "finalResult", slot |-> 0]}
    /\ tpc' = [tpc EXCEPT ![i] = "addbuildinfo"]
    /\ UNCHANGED <<bpc, directive, targetPlatforms, spawned, tres, exportPlatforms,
                   egErr, cancelled, ret, completed, calls>>

\* AddToClientResult, second cr.AddMeta (the build info).
TaskAddBuildInfo(i) ==
    /\ tpc[i] = "addbuildinfo"
    /\ finalResult' = [finalResult EXCEPT
           !.meta = MapPut(@, MetaKey(tres[i], ExporterBuildInfo), tres[i].BuildInfo)]
    /\ writers' = writers \cup {[task |-> i, object |-> "finalResult", slot |-> 0]}
    /\ tpc' = [tpc EXCEPT ![i] = "addref"]
    /\ UNCHANGED <<bpc, directive, targetPlatforms, spawned, tres, exportPlatforms,
                   egErr, cancelled, ret, completed, calls>>

\* AddToClientResult, cr.AddRef (multi-platform) or cr.SetRef.
TaskAddRef(i) ==
    /\ tpc[i] = "addref"
    /\ finalResult' =
         IF tres[i].MultiPlatform
         THEN [finalResult EXCEPT
                 !.refs = MapPut(@, tres[i].ExportPlatform.ID, tres[i].Reference)]
         ELSE [finalResult EXCEPT !.ref = tres[i].Reference]
    /\ writers' = writers \cup {[task |-> i, object |-> "finalResult", slot |-> 0]}
    /\ tpc' = [tpc EXCEPT ![i] = "slot"]
    /\ UNCHANGED <<bpc, directive, targetPlatforms, spawned, tres, exportPlatforms,
                   egErr, cancelled, ret, completed, calls>>

\* exportPlatforms.Platforms[i] = result.ExportPlatform; return nil.
TaskRecordSlot(i) ==
    /\ tpc[i] = "slot"
    /\ LET s == SlotIndex(i, exportPlatforms)
       IN  /\ exportPlatforms' = [exportPlatforms EXCEPT ![s] = tres[i].ExportPlatform]
           /\ writers' = writers \cup {[task |-> i, object |-> "slot", slot |-> s]}
    /\ completed' = Append(completed, i)
    /\ tpc' = [tpc EXCEPT ![i] = "done"]
    /\ UNCHANGED <<bpc, directive, targetPlatforms, spawned, tres, finalResult,
                   egErr, cancelled, ret, calls>>

\* The same end of Build with a wait that is over once one goroutine has
\* returned.
BuildWaitAny ==
    /\ bpc = "wait"
    /\ \E i \in Tasks : tpc[i] \in {"done", "failed"}
    /\ LET withList ==
             IF egErr = NoError /\ IsMultiPlatform(targetPlatforms)
             THEN [finalResult EXCEPT
                     !.meta = MapPut(@, <<ExporterPlatformsKey>>, exportPlatforms)]
             ELSE finalResult
       IN  /\ finalResult' = withList
           /\ ret' = BuildReturn(egErr, withList)
    /\ bpc' = "done"
    /\ UNCHANGED <<directive, targetPlatforms, spawned, tpc, tres, exportPlatforms,
                   egErr, cancelled, writers, completed, calls>>

\* eg.Wait() returns once every goroutine has returned; then the platform
\* list is added for a multi-platform build and Build returns.
BuildWait ==
    /\ bpc = "wait"
    /\ \A i \in Tasks : tpc[i] \in {"done", "failed"}
    /\ LET withList ==
             IF egErr = NoError /\ IsMultiPlatform(targetPlatforms)
             THEN [finalResult EXCEPT
                     !.meta = MapPut(@, <<ExporterPlatformsKey>>, exportPlatforms)]
             ELSE finalResult
       IN  /\ finalResult' = withList
           /\ ret' = BuildReturn(egErr, withList)
    /\ bpc' = "done"
    /\ UNCHANGED <<directive, targetPlatforms, spawned, tpc, tres, exportPlatforms,
                   egErr, cancelled, writers, completed, calls>>

BuildStep ==
    \/ BuildPrepare
    \/ BuildSpawn
    \/ \E i \in Tasks : TaskConvert(i)
    \/ \E i \in Tasks : TaskSolve(i)
    \/ \E i \in Tasks : TaskAddConfig(i)
    \/ \E i \in Tasks : TaskAddBuildInfo(i)
    \/ \E i \in Tasks : TaskAddRef(i)
    \/ \E i \in Tasks : TaskRecordSlot(i)
    \/ BuildWait

NextBuild ==
    BuildStep /\ UNCHANGED <<versionVars, resolveVars, compileVars, lockVars, decodeVars>>

SpecBuild == InitBuild /\ [][NextBuild]_vars

\* Build when the goroutines are scheduled and every engine call returns
\* (with a result, an error or the cancellation): a step that can be taken
\* is eventually taken.
SpecBuildFair == SpecBuild /\ WF_vars(NextBuild)

(***************************************************************************)
(* GetPythonVersion and findVersion applied once to each input             *)
(***************************************************************************)
InitVersion ==
    /\ vpc = "call"
    /\ vRequires \in RequiresTexts
    /\ vCandidate \in CandidateTexts
    /\ vResult = NoVersionResult
    /\ vOldResult = NoVersionResult
    /\ directive = <<>>
    /\ BuildIdle
    /\ ResolveIdle
    /\ CompileIdle
    /\ LockIdle
    /\ DecodeIdle

VersionCall ==
    /\ vpc = "call"
    /\ vResult' = GetPythonVersion(vRequires, vCandidate)
    /\ vOldResult' = findVersion(FirstLineTrimmed(vRequires), FirstLineTrimmed(vCandidate))
    /\ vpc' = "done"
    /\ UNCHANGED <<vRequires, vCandidate>>

NextVersion ==
    VersionCall /\ UNCHANGED <<buildVars, resolveVars, compileVars, lockVars, decodeVars>>

SpecVersion == InitVersion /\ [][NextVersion]_vars

(***************************************************************************)
(* Resolving one (manifest, options) pair twice                            *)
(***************************************************************************)
InitResolve ==
    /\ rpc = "first"
    /\ rInput \in ResolveInputs
    /\ rFirst = NotResolved
    /\ rSecond = NotResolved
    /\ directive = <<>>
    /\ BuildIdle
    /\ VersionIdle
    /\ CompileIdle
    /\ LockIdle
    /\ DecodeIdle

ResolveFirst ==
    /\ rpc = "first"
    /\ rFirst' \in NewConfigFromBytes(rInput.pyproject, rInput.options)
    /\ rpc' = "second"
    /\ UNCHANGED <<rInput, rSecond>>

ResolveSecond ==
    /\ rpc = "second"
    /\ rSecond' \in NewConfigFromBytes(rInput.pyproject, rInput.options)
    /\ rpc' = "done"
    /\ UNCHANGED <<rInput, rFirst>>

NextResolve ==
    (ResolveFirst \/ ResolveSecond)
      /\ UNCHANGED <<buildVars, versionVars, compileVars, lockVars, decodeVars>>

SpecResolve == InitResolve /\ [][NextResolve]_vars

(***************************************************************************)
(* Compiling one (config, options) pair twice                              *)
(***************************************************************************)
InitCompile ==
    /\ cpc = "first"
    /\ cInput \in CompileInputs
    /\ cHeap = HeapOf(cInput.config)
    /\ cFirst = NotCompiled
    /\ cSecond = NotCompiled
    /\ directive = <<>>
    /\ BuildIdle
    /\ VersionIdle
    /\ ResolveIdle
    /\ LockIdle
    /\ DecodeIdle

CompileFirst ==
    /\ cpc = "first"
    /\ cFirst' \in Microb2Dockerfile(cHeap.config, cInput.options)
    /\ cHeap' = Microb2DockerfileWrites(cHeap, cInput.options)
    /\ cpc' = "second"
    /\ UNCHANGED <<cInput, cSecond>>

CompileSecond ==
    /\ cpc = "second"
    /\ cSecond' \in Microb2Dockerfile(cHeap.config, cInput.options)
    /\ cHeap' = Microb2DockerfileWrites(cHeap, cInput.options)
    /\ cpc' = "done"
    /\ UNCHANGED <<cInput, cFirst>>

NextCompile ==
    (CompileFirst \/ CompileSecond)
      /\ UNCHANGED <<buildVars, versionVars, resolveVars, lockVars, decodeVars>>

SpecCompile == InitCompile /\ [][NextCompile]_vars

(***************************************************************************)
(* Two manifests, one lock file                                            *)
(***************************************************************************)
InitLock ==
    /\ lpc = "first"
    /\ lInput \in LockInputs
    /\ lFirst = NotBuilt
    /\ lSecond = NotBuilt
    /\ directive = <<>>
    /\ BuildIdle
    /\ VersionIdle
    /\ ResolveIdle
    /\ CompileIdle
    /\ DecodeIdle

LockFirst ==
    /\ lpc = "first"
    /\ lFirst' \in ResolveAndCompile(lInput.pyproject, lInput.options,
                                     lInput.dockerfileOptions)
    /\ lpc' = "second"
    /\ UNCHANGED <<lInput, lSecond>>

LockSecond ==
    /\ lpc = "second"
    /\ lSecond' \in ResolveAndCompile([lInput.pyproject EXCEPT !.Dependencies = lInput.other],
                                      lInput.options, lInput.dockerfileOptions)
    /\ lpc' = "done"
    /\ UNCHANGED <<lInput, lFirst>>

NextLock ==
    (LockFirst \/ LockSecond)
      /\ UNCHANGED <<buildVars, versionVars, resolveVars, compileVars, decodeVars>>

SpecLock == InitLock /\ [][NextLock]_vars

(***************************************************************************)
(* Decoding the poetry section of one manifest                             *)
(***************************************************************************)
InitDecode ==
    /\ dpc = "call"
    /\ dInput \in DecodeInputs
    /\ dResult = "not called"
    /\ directive = <<>>
    /\ BuildIdle
    /\ VersionIdle
    /\ ResolveIdle
    /\ CompileIdle
    /\ LockIdle

DecodeCall ==
    /\ dpc = "call"
    /\ dResult' \in NewConfigFromBytesDecode(dInput)
    /\ dpc' = "done"
    /\ UNCHANGED dInput

NextDecode ==
    DecodeCall /\ UNCHANGED <<buildVars, versionVars, resolveVars, compileVars, lockVars>>

SpecDecode == InitDecode /\ [][NextDecode]_vars

(***************************************************************************)
(* Properties of Build                                                     *)
(***************************************************************************)
Succeeded == ret.done /\ ret.err = NoError

\* The entry a successful build of the i-th directive element must export.
ExpectedExport(i) ==
    ExportPlatformOf(PlatformsNormalize(PlatformsParse(directive[i]).p))

\* C1: whenever Build has returned and some platform goroutine failed, Build
\* returned an error and a nil result, whatever the other goroutines had
\* already written into the shared result.
C1_FailFast ==
    (ret.done /\ \E i \in Tasks : tpc[i] = "failed")
        => (ret.err # NoError /\ ret.result = NilResult)

\* C1 witness: Build returned after one goroutine failed while another had
\* completed and recorded its entries.
C1_Witness ==
    /\ ret.done
    /\ \E i \in Tasks : tpc[i] = "failed"
    /\ \E j \in Tasks : tpc[j] = "done"
    /\ DOMAIN finalResult.meta # {}

\* C2: after a successful multi-platform Build the exported platform list
\* has, at every index i, the entry of the i-th platform of the directive.
C2_OutputOrder ==
    (Succeeded /\ Len(directive) > 1)
        => /\ <<ExporterPlatformsKey>> \in DOMAIN ret.result.meta
           /\ LET list == ret.result.meta[<<ExporterPlatformsKey>>]
              IN  /\ Len(list) = Len(directive)
                  /\ \A i \in DOMAIN directive : list[i] = ExpectedExport(i)

\* C2 witness: a successful build of two different platforms in which the
\* second platform's goroutine finished first.
C2_Witness ==
    /\ Succeeded
    /\ Len(directive) = 2
    /\ ExpectedExport(1) # ExpectedExport(2)
    /\ completed = <<2, 1>>

\* C3: a successful Build of k >= 2 platforms returns exactly k references,
\* k image configurations and k build infos, the i-th platform's being those
\* of its own goroutine.
C3_ExactlyKEntries ==
    (Succeeded /\ Len(directive) >= 2)
        => LET r == ret.result
               k == Len(directive)
           IN  /\ Cardinality(DOMAIN r.refs) = k
               /\ Cardinality({key \in DOMAIN r.meta : key[1] = ExporterImageConfigKey}) = k
               /\ Cardinality({key \in DOMAIN r.meta : key[1] = ExporterBuildInfo}) = k
               /\ \A i \in DOMAIN directive :
                     LET id == ExpectedExport(i).ID
                     IN  /\ id \in DOMAIN r.refs
                         /\ r.refs[id] = tres[i].Reference
                         /\ r.meta[<<ExporterImageConfigKey>> \o id] = tres[i].ImageConfig
                         /\ r.meta[<<ExporterBuildInfo>> \o id] = tres[i].BuildInfo

\* C4 as stated: the goroutines write nothing but their own slot; the
\* aggregate result is only read.
C4_OnlyOwnSlotWritten ==
    \A w \in writers : w.object = "slot" /\ w.slot = w.task

\* C4 amended: a goroutine writes its own slot of the platform list and no
\* other slot, and every goroutine that completes has also written the shared
\* aggregate result.
C4_OwnSlotAndSharedResult ==
    /\ \A w \in writers :
          \/ w.object = "slot" /\ w.slot = w.task
          \/ w.object = "finalResult"
    /\ \A i \in Tasks :
          tpc[i] = "done" =>
              /\ [task |-> i, object |-> "finalResult", slot |-> 0] \in writers
              /\ [task |-> i, object |-> "slot", slot |-> i] \in writers

\* C4 witness: two goroutines have both completed, so both have written the
\* aggregate result and each its slot.
C4_Witness ==
    /\ Len(targetPlatforms) = 2
    /\ \A i \in Tasks : tpc[i] = "done"
    /\ completed = <<2, 1>>

\* Keys of the aggregate result that carry a platform identifier.
Namespaced(key) == Len(key) > 1

\* C5: image configuration and build info are written under namespaced keys,
\* and the platform list is added, exactly when more than one platform was
\* resolved; with one platform (an absent or empty directive runs one
\* goroutine on the nil, i.e. default, platform) the keys are bare and the
\* reference is the single result reference.
C5_NamespacedIffMulti ==
    /\ \A key \in DOMAIN finalResult.meta :
          IF key[1] = ExporterPlatformsKey
          THEN Len(targetPlatforms) > 1
          ELSE Namespaced(key) <=> Len(targetPlatforms) > 1
    /\ (DOMAIN finalResult.refs # {}) => Len(targetPlatforms) > 1
    /\ (finalResult.ref # NilRef) => Len(targetPlatforms) = 1
    /\ (bpc \notin {"start"} /\ ~ret.done /\ directive = <<>>)
          => targetPlatforms = <<NilPlatform>>
    /\ Succeeded =>
          IF Len(targetPlatforms) > 1
          THEN /\ <<ExporterPlatformsKey>> \in DOMAIN ret.result.meta
               /\ ret.result.ref = NilRef
               /\ \A i \in Tasks :
                     /\ <<ExporterImageConfigKey>> \o tres[i].ExportPlatform.ID
                            \in DOMAIN ret.result.meta
                     /\ <<ExporterBuildInfo>> \o tres[i].ExportPlatform.ID
                            \in DOMAIN ret.result.meta
                     /\ tres[i].ExportPlatform.ID \in DOMAIN ret.result.refs
          ELSE /\ Len(targetPlatforms) = 1
               /\ DOMAIN ret.result.meta = {<<ExporterImageConfigKey>>, <<ExporterBuildInfo>>}
               /\ ret.result.ref = tres[1].Reference
               /\ ret.result.ref # NilRef
               /\ ret.result.refs = EmptyMap

\* C5 witness: a successful build with no platform directive.
C5_Witness ==
    /\ Succeeded
    /\ directive = <<>>
    /\ ret.result.ref # NilRef


(***************************************************************************)
(* Properties of NewConfigFromBytes                                        *)
(***************************************************************************)
\* C6: resolving the same (manifest, target) pair twice yields an identical
\* result: the same default target is chosen and the Dependencies list has
\* the same order on both resolutions.
C6_SameResultTwice ==
    rpc = "done" => rFirst = rSecond

\* The targets a call may select: the one named, or any of the manifest's
\* targets when none is named.
SelectedTargets ==
    IF rInput.options.Target # "" THEN {rInput.options.Target}
    ELSE DOMAIN rInput.pyproject.Target

RequirementsWithExtras(t) ==
    /\ t \in DOMAIN rInput.pyproject.Target
    /\ rInput.pyproject.Target[t].Requirements # ""
    /\ Len(rInput.pyproject.Target[t].Extras) > 0

Returned(n) == IF n = 1 THEN rpc \in {"second", "done"} ELSE rpc = "done"

ResultOf(n) == IF n = 1 THEN rFirst ELSE rSecond

\* C8: when the selected target sets a requirements path together with a
\* non-empty extras list the resolution fails and returns no config,
\* whether or not the extras exist, the version resolves or the lock file
\* is readable.
C8_RequirementsWithExtrasFails ==
    \A n \in {1, 2} :
        (/\ Returned(n)
         /\ SelectedTargets # {}
         /\ \A t \in SelectedTargets : RequirementsWithExtras(t))
        => ResultOf(n).err # "" /\ ResultOf(n).config = ZeroConfig

\* requirements and an existing extra, a version that resolves and a lock
\* file that is readable: the call still fails, on the validation.
C8_Witness ==
    /\ rpc = "done"
    /\ rInput.options.Target = "a"
    /\ RequirementsWithExtras("a")
    /\ rInput.pyproject.Target["a"].Extras = <<"dev">>
    /\ rInput.pyproject.Target["a"].PythonVersion = EmptyText
    /\ rInput.options.ReadRequirements.err = ""
    /\ rFirst.err = "using requirements is not allowed together with extras"

\* C9: every returned Config has a PythonVersion that satisfies the
\* project's version constraint (the one the call solves), on every path:
\* explicit target version, pinned version, preference list, no target.
C9_VersionSatisfiesConstraint ==
    \A n \in {1, 2} :
        (Returned(n) /\ ResultOf(n).err = "")
        => LET cons == NewConstraint(FirstLineTrimmed(RequiresPythonOf(rInput.pyproject)))
               v    == NewVersion(ResultOf(n).config.PythonVersion)
           IN  cons.ok /\ v.ok /\ ConstraintsCheck(cons, v.segments)

\* The manifest has no target and the callback reads a pinned 3.10.
C9_Witness ==
    /\ rpc = "done"
    /\ DOMAIN rInput.pyproject.Target = {}
    /\ FirstLineTrimmed(rInput.options.ReadPythonVersion) = "3.10"
    /\ rFirst.err = ""
    /\ rFirst.config.PythonVersion = "3.10"

\* The constraint the call solves, parsed.
ConstraintOf(pyproject) == NewConstraint(FirstLineTrimmed(RequiresPythonOf(pyproject)))

\* text is a well-formed version that the (well-formed) constraint refuses.
Refused(pyproject, text) ==
    /\ ConstraintOf(pyproject).ok
    /\ NewVersion(text).ok
    /\ ~ConstraintsCheck(ConstraintOf(pyproject), NewVersion(text).segments)

\* Target t exists and gives an explicit version the constraint refuses.
ExplicitMismatch(t) ==
    /\ t \in DOMAIN rInput.pyproject.Target
    /\ rInput.pyproject.Target[t].PythonVersion # EmptyText
    /\ Refused(rInput.pyproject, FirstLineTrimmed(rInput.pyproject.Target[t].PythonVersion))

\* C11: when the selected target gives an explicit version that does not
\* satisfy the constraint, the resolution fails, with the version-mismatch
\* error once the flavor is accepted, and returns no config: there is no
\* fallback to the preference list.
C11_ExplicitMismatchFails ==
    \A n \in {1, 2} :
        (/\ Returned(n)
         /\ SelectedTargets # {}
         /\ \A t \in SelectedTargets : ExplicitMismatch(t))
        => /\ ResultOf(n).err # ""
           /\ ResultOf(n).config = ZeroConfig
           /\ (\A t \in SelectedTargets : Flavor(rInput.pyproject.Target[t].Flavor).ok)
                => ResultOf(n).err = "version does not satisfy the constraint"

\* 3.13 against >=3.8,<3.12: refused although 3.11 would satisfy.
C11_Witness ==
    /\ rpc = "done"
    /\ rInput.options.Target = "a"
    /\ ExplicitMismatch("a")
    /\ FirstLineTrimmed(rInput.pyproject.Target["a"].PythonVersion) = "3.13"
    /\ RequiresPythonOf(rInput.pyproject) = AtLeast38Below312
    /\ rFirst.err = "version does not satisfy the constraint"
    /\ rSecond.err = "version does not satisfy the constraint"

\* strings.TrimSpace of a whole text: the body of its one non-empty line.
Trimmed(raw) ==
    IF \E i \in DOMAIN raw : raw[i].body # ""
    THEN raw[CHOOSE i \in DOMAIN raw : raw[i].body # ""].body
    ELSE ""

\* No selected path gives an explicit version: the manifest has no target,
\* or every target that may be selected leaves python_version empty, names
\* a flavor the code accepts and sets neither requirements nor extras.
NoExplicitVersion ==
    /\ SelectedTargets \subseteq DOMAIN rInput.pyproject.Target
    /\ \A t \in SelectedTargets :
         /\ rInput.pyproject.Target[t].PythonVersion = EmptyText
         /\ Flavor(rInput.pyproject.Target[t].Flavor).ok
         /\ rInput.pyproject.Target[t].Requirements = ""
         /\ rInput.pyproject.Target[t].Extras = <<>>

\* C12: with no explicit version and a non-empty pinned value, the pinned
\* value is returned when it satisfies the constraint and the preference
\* list is consulted when it does not.
C12_PinnedVersionTriedFirst ==
    \A n \in {1, 2} :
        (/\ Returned(n)
         /\ NoExplicitVersion
         /\ ConstraintOf(rInput.pyproject).ok
         /\ NewVersion(Trimmed(rInput.options.ReadPythonVersion)).ok)
        => LET pinned == Trimmed(rInput.options.ReadPythonVersion)
               cons   == ConstraintOf(rInput.pyproject)
               listed == FirstAllowed(cons, ALLOWED_PYTHON_VERSIONS)
           IN  IF ConstraintsCheck(cons, NewVersion(pinned).segments)
               THEN ResultOf(n).err = "" /\ ResultOf(n).config.PythonVersion = pinned
               ELSE /\ ResultOf(n).err = listed.err
                    /\ ResultOf(n).config.PythonVersion = listed.version

\* The number of entries of list equal to x.
Occurrences(list, x) == Cardinality({i \in DOMAIN list : list[i] = x})

\* C13: the Dependencies of every returned Config hold no entry twice, on
\* every path, the minimal configuration of a manifest without target
\* included.
C13_NoDuplicateDependencies ==
    \A n \in {1, 2} :
        (Returned(n) /\ ResultOf(n).err = "")
        => \A d \in Range(ResultOf(n).config.Dependencies) :
              Occurrences(ResultOf(n).config.Dependencies, d) = 1

\* The packages a Config needs for its transports and its index secrets.
RequiredBuildDeps(config, source) ==
    (IF \E i \in DOMAIN source : StringsContains(source[i], "git+ssh")
     THEN {"openssh-client", "git"} ELSE {})
    \cup (IF \E i \in DOMAIN source : StringsContains(source[i], "git+")
          THEN {"git"} ELSE {})
    \cup (IF \E i \in DOMAIN config.Indices :
                config.Indices[i].UsernameSecret # "" \/ config.Indices[i].PasswordSecret # ""
          THEN {"jq"} ELSE {})

\* The dependency source of a returned Config: the lines of the lock file
\* when the Config names one, its Dependencies otherwise.
DependencySource(config) ==
    IF config.Requirements # "" THEN rInput.options.ReadRequirements.lines
    ELSE config.Dependencies

\* C14: adding the inferred build packages is idempotent: none of
\* openssh-client, git and jq occurs twice in the resolved BuildDeps or in
\* the package list of the build-stage install instruction, and each occurs
\* exactly once when the selected target requires it, also when build_deps
\* already names it.
C14_InferredPackagesOnce ==
    \A n \in {1, 2} :
        (Returned(n) /\ ResultOf(n).err = "")
        => LET config == ResultOf(n).config
               needed == IF DOMAIN rInput.pyproject.Target = {} THEN {}
                         ELSE RequiredBuildDeps(config, DependencySource(config))
           IN  \A pkg \in {"openssh-client", "git", "jq"}, useSsh \in BOOLEAN :
                  /\ Occurrences(config.BuildDeps, pkg) <= 1
                  /\ Occurrences(updateBuildDeps(config, useSsh), pkg) <= 1
                  /\ pkg \in needed
                       => /\ Occurrences(config.BuildDeps, pkg) = 1
                          /\ Occurrences(updateBuildDeps(config, useSsh), pkg) = 1

\* C15: the BuildDeps of every returned Config hold openssh-client and git
\* when an entry of its dependency source uses git over ssh, git when an
\* entry uses git, jq when an index has a secret-backed credential, on every
\* path, the minimal configuration included.
C15_BuildDepsCoverTransports ==
    \A n \in {1, 2} :
        (Returned(n) /\ ResultOf(n).err = "")
        => RequiredBuildDeps(ResultOf(n).config, DependencySource(ResultOf(n).config))
             \subseteq Range(ResultOf(n).config.BuildDeps)

(***************************************************************************)
(* Properties of GetPythonVersion and findVersion                          *)
(***************************************************************************)
\* The entries of a preference list that satisfy the constraint.
Satisfying(requires, list) ==
    LET cons == NewConstraint(requires)
    IN  {i \in DOMAIN list :
            cons.ok /\ ConstraintsCheck(cons, NewVersion(list[i]).segments)}

\* res is the first and the highest satisfying entry of list, or an error
\* when there is none.
IsFirstAllowed(res, requires, list) ==
    LET sat == Satisfying(requires, list)
    IN  IF sat = {} THEN res.err # ""
        ELSE /\ res.err = ""
             /\ \E i \in sat :
                  /\ res.version = list[i]
                  /\ \A j \in sat :
                       /\ i <= j
                       /\ VersionCompare(NewVersion(list[j]).segments,
                                         NewVersion(list[i]).segments) <= 0

\* C10: with no explicit and no pinned version the result is the first entry
\* of the descending preference list that satisfies the constraint, the
\* highest one (3.11 for >=3.8,<3.12), and the call fails if and only if no
\* listed version satisfies it.
C10_FirstOfPreferenceList ==
    (vpc = "done" /\ FirstLineTrimmed(vCandidate) = "")
    => /\ IsFirstAllowed(vResult, FirstLineTrimmed(vRequires), ALLOWED_PYTHON_VERSIONS)
       /\ IsFirstAllowed(vOldResult, FirstLineTrimmed(vRequires), FindVersionList)
       /\ vRequires = AtLeast38Below312
            => vResult = VersionOk("3.11") /\ vOldResult = VersionOk("3.11")

C10_Witness ==
    /\ vpc = "done"
    /\ vCandidate = EmptyText
    /\ vRequires = AtLeast38Below312
    /\ vResult = VersionOk("3.11")

(***************************************************************************)
(* Properties of a lock file                                               *)
(***************************************************************************)
\* The instructions of a script that install build packages, install the
\* dependencies, clean up after the installation.
IsBuildPackageInstall(ins) ==
    ins[1] = "RUN" /\ Len(ins) >= 2
      /\ ins[2] \in {"--mount=type=cache,target=/var/cache/apt,sharing=locked",
                     "--mount=type=cache,target=/var/cache/apk,sharing=locked"}

IsDependencyInstall(ins) == "python -m pip install --user" \in Range(ins)

IsCleanup(ins) == ins = <<"RUN", "find /root/.local/lib/python*/ ...">>

\* C16: with a lock file configured the manifest dependencies are ignored:
\* two manifests that differ only in their dependency list give the same
\* transport flags, the same BuildDeps and the same build-package install,
\* dependency-install and cleanup instructions.
C16_LockFileIgnoresManifestDeps ==
    (/\ lpc = "done"
     /\ lInput.options.Target = "a"
     /\ lFirst.resolved.err = "" /\ lSecond.resolved.err = "")
    => /\ lFirst.resolved.config.DependenciesUseSsh = lSecond.resolved.config.DependenciesUseSsh
       /\ lFirst.resolved.config.DependenciesUseGit = lSecond.resolved.config.DependenciesUseGit
       /\ lFirst.resolved.config.BuildDeps = lSecond.resolved.config.BuildDeps
       /\ \A kind \in {"packages", "dependencies", "cleanup"} :
            LET is(ins) == CASE kind = "packages" -> IsBuildPackageInstall(ins)
                             [] kind = "dependencies" -> IsDependencyInstall(ins)
                             [] OTHER -> IsCleanup(ins)
            IN  SelectSeq(lFirst.compiled.script, is) = SelectSeq(lSecond.compiled.script, is)

(***************************************************************************)
(* Properties of Microb2Dockerfile                                         *)
(***************************************************************************)
\* C7: compiling the same Config with the same placeholder map twice yields
\* the same script, the ENV instructions and the LABEL instructions in the
\* same relative order.
C7_SameScriptTwice ==
    cpc = "done" => cFirst = cSecond

\* The scripts returned so far.
Scripts ==
    (IF cpc \in {"second", "done"} /\ ~cFirst.fatal THEN {cFirst.script} ELSE {})
    \cup (IF cpc = "done" /\ ~cSecond.fatal THEN {cSecond.script} ELSE {})

\* The credentials written after the url of an index in a script: user kind
\* and value, password kind and value.
RenderedCredentials(script, url) ==
    {<<script[k][i + 2], script[k][i + 3], script[k][i + 4], script[k][i + 5]>> :
        k \in {k \in DOMAIN script : IsDependencyInstall(script[k])},
        i \in {i \in 1..20 : \E k \in DOMAIN script :
                 /\ IsDependencyInstall(script[k]) /\ i + 5 <= Len(script[k])
                 /\ script[k][i] = "--extra-index-url" /\ script[k][i + 1] = url}}

Words(script) == UNION {Range(script[k]) : k \in DOMAIN script}

\* C17 as stated: every index with password_secret and password set is
\* rendered with the secret reference as its password and the plain password
\* occurs nowhere in the script; username_secret wins over username.
C17_SecretWinsForEveryIndex ==
    \A script \in Scripts, i \in DOMAIN cInput.config.Indices :
        LET index == cInput.config.Indices[i]
            creds == RenderedCredentials(script, index.Url)
        IN  /\ (index.PasswordSecret # "" /\ index.Password # "")
                 => /\ \A c \in creds : <<c[3], c[4]>> = <<"secret", index.PasswordSecret>>
                    /\ index.Password \notin Words(script)
            /\ (index.UsernameSecret # "" /\ index.Username # "")
                 => /\ \A c \in creds : <<c[1], c[2]>> = <<"secret", index.UsernameSecret>>
                    /\ index.Username \notin Words(script)

\* C17: an index with password_secret and password set never has the plain
\* password in the script, and is rendered with the secret reference as its
\* password when it has a username or a username_secret (a password without
\* username is left out of the url); username_secret wins over username.
C17_SecretWinsOverPlain ==
    \A script \in Scripts, i \in DOMAIN cInput.config.Indices :
        LET index == cInput.config.Indices[i]
            creds == RenderedCredentials(script, index.Url)
            hasUser == index.Username # "" \/ index.UsernameSecret # ""
        IN  /\ (index.PasswordSecret # "" /\ index.Password # "")
                 => /\ index.Password \notin Words(script)
                    /\ \A c \in creds :
                         <<c[3], c[4]>> = IF hasUser THEN <<"secret", index.PasswordSecret>>
                                          ELSE <<"", "">>
            /\ (index.UsernameSecret # "" /\ index.Username # "")
                 => /\ \A c \in creds : <<c[1], c[2]>> = <<"secret", index.UsernameSecret>>
                    /\ index.Username \notin Words(script)

\* bob with hunter2 and the secret pypi-token: the url carries bob and the
\* reference to the secret.
C17_Witness ==
    /\ cpc = "done"
    /\ Len(cInput.config.Indices) = 1
    /\ cInput.config.Indices[1].Username = "bob"
    /\ cInput.config.Indices[1].Password = "hunter2"
    /\ cInput.config.Indices[1].PasswordSecret = "pypi-token"
    /\ RenderedCredentials(cFirst.script, cInput.config.Indices[1].Url)
         = {<<"literal", "bob", "secret", "pypi-token">>}

\* The position of the FROM of the runtime stage in a script.
FinalFrom(script) ==
    CHOOSE k \in DOMAIN script : script[k][1] = "FROM" /\ script[k][2] = "python"

BuildStageOf(script) == SubSeq(script, 1, FinalFrom(script) - 1)

RunStageOf(script) == SubSeq(script, FinalFrom(script), Len(script))

\* The words only apt-based, only apk-based instructions hold.
AptWords ==
    {"--mount=type=cache,target=/var/cache/apt,sharing=locked",
     "apt-get update && apt-get install -y --no-install-recommends",
     "useradd --uid=65532 --user-group --home-dir=/home/nonroot --create-home nonroot"}

ApkWords ==
    {"--mount=type=cache,target=/var/cache/apk,sharing=locked", "apk add",
     "apk add --no-cache",
     "addgroup 65532 && adduser -u 65532 -G 65532 -h /home/nonroot -D nonroot"}

\* The tag of the base image of a stage and the package manager the stage
\* uses, when it installs packages.
UsesFlavor(stage, tag, own, foreign, packages) ==
    /\ stage[1][1] = "FROM" /\ stage[1][4] = tag
    /\ Words(stage) \cap foreign = {}
    /\ packages # <<>> => Words(stage) \cap own # {}

\* C18 as stated: alpine gives alpine-tagged images and apk in both stages,
\* debian gives slim-tagged images and apt in both stages.
C18_FlavorInBothStages ==
    \A script \in Scripts :
        LET c == cInput.config
            build == updateBuildDeps(c, cInput.options.RequirementsUseSsh)
        IN  /\ c.Flavor = "alpine"
                 => /\ UsesFlavor(BuildStageOf(script), "-alpine", ApkWords, AptWords, build)
                    /\ UsesFlavor(RunStageOf(script), "-alpine", ApkWords, AptWords, c.SystemDeps)
            /\ c.Flavor = "debian"
                 => /\ UsesFlavor(BuildStageOf(script), "-slim", AptWords, ApkWords, build)
                    /\ UsesFlavor(RunStageOf(script), "-slim", AptWords, ApkWords, c.SystemDeps)

\* C18: alpine gives alpine-tagged images and apk in both stages; debian
\* gives apt in both stages, the slim-tagged image in the runtime stage and
\* the untagged image in the preparation stage.
C18_FlavorSelectsImagesAndManager ==
    \A script \in Scripts :
        LET c == cInput.config
            build == updateBuildDeps(c, cInput.options.RequirementsUseSsh)
        IN  /\ c.Flavor = "alpine"
                 => /\ UsesFlavor(BuildStageOf(script), "-alpine", ApkWords, AptWords, build)
                    /\ UsesFlavor(RunStageOf(script), "-alpine", ApkWords, AptWords, c.SystemDeps)
            /\ c.Flavor = "debian"
                 => /\ UsesFlavor(BuildStageOf(script), "", AptWords, ApkWords, build)
                    /\ UsesFlavor(RunStageOf(script), "-slim", AptWords, ApkWords, c.SystemDeps)

\* An alpine config with build packages and system packages, compiled.
C18_Witness ==
    /\ cpc = "done"
    /\ cInput.config.Flavor = "alpine"
    /\ cInput.config.BuildDeps # <<>>
    /\ cInput.config.SystemDeps # <<>>
    /\ "apk add --no-cache" \in Words(RunStageOf(cFirst.script))
    /\ "apk add" \in Words(BuildStageOf(cSecond.script))

\* The COPY instructions of a stage that copy declared files: not the copy
\* of the lock file, of the project, of the installed packages.
IsFileCopy(ins) ==
    /\ ins[1] = "COPY"
    /\ ins \notin {<<"COPY", ".", "/projectdir">>,
                   <<"COPY", "--from", "builder", "/root/.local", "/home/nonroot/.local">>}
    /\ ~(Len(ins) = 3 /\ ins[3] = "/requirements.txt")

\* C19: the files copied into the build stage are exactly those of
\* copy_files_before_build, whatever copy_files holds, and the files of
\* copy_files are copied into the final image only.
C19_CopyBeforeBuildOwnList ==
    \A script \in Scripts :
        LET c == cInput.config
        IN  /\ SelectSeq(BuildStageOf(script), IsFileCopy)
                 = [i \in DOMAIN c.CopyFilesBeforeBuild |->
                      CopyInstruction(c.CopyFilesBeforeBuild[i])]
            /\ SelectSeq(RunStageOf(script), IsFileCopy)
                 = [i \in DOMAIN c.CopyFiles |-> CopyInstruction(c.CopyFiles[i])]

\* The group of an instruction of the preparation stage: 1 base image,
\* 2 build packages, 3 environment, 4 files before the build, 5 dependency
\* install, 6 project install, 7 cleanup.
StageGroup(ins) ==
    CASE ins[1] = "FROM" -> 1
      [] IsBuildPackageInstall(ins) -> 2
      [] ins[1] = "ENV" -> 3
      [] ins[1] = "ADD" \/ IsFileCopy(ins) -> 4
      [] IsDependencyInstall(ins) \/ (ins[1] = "COPY" /\ ins[3] = "/requirements.txt") -> 5
      [] ins \in {<<"COPY", ".", "/projectdir">>,
                  <<"RUN", "--mount=type=cache,target=/root/.cache",
                    "python -m pip install --no-deps /projectdir">>} -> 6
      [] IsCleanup(ins) -> 7
      [] OTHER -> 0

\* C20: in the preparation stage of every script no instruction of a later
\* group precedes one of an earlier group: base image, build packages,
\* environment, files before the build, dependency install, project
\* install without dependencies, cleanup.
C20_PreparationStageOrder ==
    \A script \in Scripts :
        LET stage == BuildStageOf(script)
        IN  /\ \A k \in DOMAIN stage : StageGroup(stage[k]) \in 1..7
            /\ StageGroup(stage[1]) = 1
            /\ \A j, k \in DOMAIN stage : j < k => StageGroup(stage[j]) <= StageGroup(stage[k])
            /\ \E k \in DOMAIN stage : StageGroup(stage[k]) = 6

\* A script whose preparation stage holds an instruction of every group.
C20_Witness ==
    /\ cpc = "done"
    /\ ~cFirst.fatal /\ ~cSecond.fatal
    /\ {StageGroup(BuildStageOf(cFirst.script)[k]) : k \in DOMAIN BuildStageOf(cFirst.script)}
         = 1..7
    /\ {StageGroup(BuildStageOf(cSecond.script)[k]) : k \in DOMAIN BuildStageOf(cSecond.script)}
         = 1..7

LabelsOf(script, key) ==
    LET stage == RunStageOf(script)
    IN  SelectSeq(stage, LAMBDA ins : ins[1] = "LABEL" /\ ins[2] = key)

\* C22: the runtime stage of every script has exactly one LABEL for every
\* default label key, with the user's value when the user labels have the
\* key and the default value otherwise, and the package-level maps
\* defaulLabels and defaultEnvs keep their values across compilations.
C22_DefaultLabelsUserWins ==
    /\ cHeap.defaulLabels = defaulLabels
    /\ cHeap.defaultEnvs = defaultEnvs
    /\ \A script \in Scripts : \A key \in DOMAIN defaulLabels :
         LET user == cInput.config.Labels
             value == IF key \in DOMAIN user
                      THEN ShellExpand(user[key], cInput.options.Placeholders)
                      ELSE defaulLabels[key]
         IN  LabelsOf(script, key) = << <<"LABEL", key, value>> >>

\* Two calls for a Config whose labels redefine a default label.
C22_Witness ==
    /\ cpc = "done"
    /\ ~cFirst.fatal /\ ~cSecond.fatal
    /\ \E key \in DOMAIN defaulLabels \cap DOMAIN cInput.config.Labels :
         /\ cInput.config.Labels[key] # defaulLabels[key]
         /\ LabelsOf(cSecond.script, key) = << <<"LABEL", key, cInput.config.Labels[key]>> >>

\* The target t of the manifest asks for an extra that is not a group of
\* the optional dependencies.
UnknownExtra(t) ==
    /\ t \in DOMAIN rInput.pyproject.Target
    /\ \E i \in DOMAIN rInput.pyproject.Target[t].Extras :
         rInput.pyproject.Target[t].Extras[i] \notin DOMAIN rInput.pyproject.OptionalDependencies

\* C23: a call that names a target the manifest does not define returns the
\* target-not-found error and no Config, and a call whose selected target
\* asks for an undeclared extra returns an error and no Config; neither
\* falls back to another target or leaves the extra out.
C23_UnknownTargetOrExtraFails ==
    \A n \in {1, 2} :
        Returned(n)
        => /\ (/\ rInput.options.Target # ""
               /\ rInput.options.Target \notin DOMAIN rInput.pyproject.Target)
              => ResultOf(n) = ResolveErr("target not found")
           /\ (SelectedTargets # {} /\ \A t \in SelectedTargets : UnknownExtra(t))
              => ResultOf(n).err # "" /\ ResultOf(n).config = ZeroConfig

\* The named target passes every earlier check and asks for an undeclared
\* extra: both calls fail on the extra.
C23_Witness ==
    /\ rpc = "done"
    /\ rInput.options.Target = "a"
    /\ UnknownExtra("a")
    /\ rInput.pyproject.Dependencies # <<>>
    /\ rFirst = ResolveErr("extra not found")
    /\ rSecond = ResolveErr("extra not found")

\* C24: whenever the resolved Config has DependenciesUseSsh set, the
\* dependency-install instruction of the script compiled from it carries
\* the ssh mount; stated for the options the entry points pass
\* (RequirementsUseSsh unset) and a target that installs from a lock file.
C24_SshMountWhenSshTransport ==
    \A built \in {lFirst, lSecond} :
        (/\ ~lInput.dockerfileOptions.RequirementsUseSsh
         /\ built.resolved.err = ""
         /\ built.resolved.config.DependenciesUseSsh
         /\ built.compiled # NotCompiled
         /\ ~built.compiled.fatal)
        => \E k \in DOMAIN built.compiled.script :
              /\ IsDependencyInstall(built.compiled.script[k])
              /\ "--mount=type=ssh,required=true" \in Range(built.compiled.script[k])

\* The goroutines that have returned an error.
Failed == {i \in Tasks : tpc[i] = "failed"}

\* The engine calls of goroutine i that returned because the context was
\* cancelled.
CancelledCalls(i) == {k \in DOMAIN calls[i] : calls[i][k][2] = "canceled"}

\* C25: once a platform goroutine has failed the shared context is
\* cancelled, so every later engine call of a sibling is made under the
\* cancelled context; the error the group keeps is set by the first
\* goroutine that fails and is never replaced, and it is the error Build
\* returns, never the cancellation error of a sibling.
C25_FirstErrorReturned ==
    /\ [](/\ Failed # {} => cancelled /\ egErr.task \in Failed
          /\ \A i \in Tasks : CancelledCalls(i) # {} => egErr.task \in Failed \ {i}
          /\ (ret.done /\ Failed # {}) => ret.err = egErr /\ ret.err.kind # "canceled")
    /\ [][/\ egErr # NoError => egErr' = egErr
          /\ (egErr = NoError /\ egErr' # NoError)
             => Failed = {} /\ egErr'.task \in {i \in Tasks : tpc'[i] = "failed"}]_vars

\* Build returned the error of the goroutine that failed first while its
\* sibling failed afterwards on a call that returned the cancellation.
C25_Witness ==
    /\ ret.done
    /\ \E i, j \in Failed :
         /\ i # j
         /\ ret.err.task = i
         /\ ret.err.kind # "canceled"
         /\ CancelledCalls(j) # {}

\* The results of the calls made so far: the Config and the script.
BuiltSoFar ==
    (IF lpc \in {"second", "done"} THEN {lFirst} ELSE {})
      \cup (IF lpc = "done" THEN {lSecond} ELSE {})

\* C26: every Config the resolver returns has the flavor debian or alpine
\* (debian when the target omits it or the manifest has no target), a
\* target with any other flavor makes the resolution fail, and compiling a
\* returned Config gives a script, never the unsupported-flavor exit.
C26_ResolvedFlavorSupported ==
    \A built \in BuiltSoFar :
        LET targets == lInput.pyproject.Target
            written == IF lInput.options.Target \in DOMAIN targets
                       THEN targets[lInput.options.Target].Flavor ELSE ""
        IN  /\ built.resolved.err = ""
               => /\ built.resolved.config.Flavor \in {"debian", "alpine"}
                  /\ written = "" => built.resolved.config.Flavor = "debian"
                  /\ built.compiled # NotCompiled
                  /\ ~built.compiled.fatal
            /\ written \notin {"", "debian", "alpine"}
               => built.resolved = ResolveErr("unknown flavor")

\* A target without a flavor and a manifest resolved and compiled twice:
\* the Config has the flavor debian and the script starts the build stage.
C26_Witness ==
    /\ lpc = "done"
    /\ lInput.options.Target = "a"
    /\ lInput.pyproject.Target["a"].Flavor = ""
    /\ lFirst.resolved.err = "" /\ lSecond.resolved.err = ""
    /\ lFirst.resolved.config.Flavor = "debian"
    /\ ~lFirst.compiled.fatal /\ ~lSecond.compiled.fatal
    /\ lFirst.compiled.script[1][1] = "FROM"

\* The positions of the instructions of a stage that satisfy a test.
PositionsOf(stage, Test(_)) == {k \in DOMAIN stage : Test(stage[k])}

IsSystemPackageInstall(ins) ==
    /\ ins[1] = "RUN"
    /\ ins[2] \in {"apt-get update && apt-get install -y --no-install-recommends",
                   "apk add --no-cache"}

IsUserCreation(ins) ==
    ins \in {<<"RUN", "addgroup 65532 && adduser -u 65532 -G 65532 -h /home/nonroot -D nonroot">>,
             <<"RUN", "useradd --uid=65532 --user-group --home-dir=/home/nonroot --create-home nonroot">>}

\* C27: the runtime stage of every script, of either flavor, has exactly
\* one USER instruction, USER 65532:65532, right after the instruction that
\* creates the user; the installation of the system packages comes before
\* it and every COPY, ADD, ENTRYPOINT and CMD of the stage after it.
C27_NonRootUserBeforeFiles ==
    \A script \in Scripts :
        LET stage == RunStageOf(script)
            users == PositionsOf(stage, LAMBDA ins : ins[1] = "USER")
        IN  /\ Cardinality(users) = 1
            /\ \A u \in users :
                 /\ stage[u] = <<"USER", "65532:65532">>
                 /\ u > 1 /\ IsUserCreation(stage[u - 1])
                 /\ \A k \in PositionsOf(stage, IsSystemPackageInstall) : k < u
                 /\ \A k \in PositionsOf(stage, LAMBDA ins :
                                 ins[1] \in {"COPY", "ADD", "ENTRYPOINT", "CMD"}) : u < k
            /\ cInput.config.SystemDeps # <<>>
               => PositionsOf(stage, IsSystemPackageInstall) # {}

\* Scripts of a Config with system packages, a copied file, an added file,
\* an entrypoint and a command.
C27_Witness ==
    /\ cpc = "done"
    /\ ~cFirst.fatal /\ ~cSecond.fatal
    /\ cInput.config.SystemDeps # <<>>
    /\ cInput.config.CopyFiles # <<>>
    /\ cInput.config.AddFiles # <<>>
    /\ cInput.config.Flavor = "alpine"
    /\ \E k \in DOMAIN cSecond.script : cSecond.script[k][1] = "ENTRYPOINT"
    /\ \E k \in DOMAIN cSecond.script : cSecond.script[k][1] = "CMD"
    /\ \E k \in DOMAIN cSecond.script : cSecond.script[k] = <<"USER", "65532:65532">>

\* The ADD instructions of a stage.
AddsOf(stage) == SelectSeq(stage, LAMBDA ins : ins[1] = "ADD")

\* One ADD per declaration, with the checksum option when the declaration
\* has a checksum and without it otherwise.
OneAddEach(files) ==
    [i \in DOMAIN files |->
        IF files[i].Checksum # ""
        THEN <<"ADD", "--checksum", files[i].Checksum, files[i].Source, files[i].Destination>>
        ELSE <<"ADD", files[i].Source, files[i].Destination>>]

\* C28: every declaration of add_files_before_build yields exactly one ADD
\* in the preparation stage and every declaration of add_files exactly one
\* ADD in the runtime stage, with --checksum if and only if the declaration
\* has a checksum.
C28_OneAddPerDeclaration ==
    \A script \in Scripts :
        /\ AddsOf(BuildStageOf(script)) = OneAddEach(cInput.config.AddFilesBeforeBuild)
        /\ AddsOf(RunStageOf(script)) = OneAddEach(cInput.config.AddFiles)

\* A poetry author that is not the text of an address, or a poetry
\* dependency that is neither a text nor a table with a text version.
Undecodable(manifest) ==
    \/ \E i \in DOMAIN manifest.authors :
         \/ manifest.authors[i].kind # "string"
         \/ ~MailParseAddress(manifest.authors[i].text).ok
    \/ \E i \in DOMAIN manifest.dependencies :
         LET value == manifest.dependencies[i]
         IN  /\ value.kind # "string"
             /\ ~(/\ value.kind = "table"
                  /\ "version" \in DOMAIN value.fields
                  /\ value.fields["version"].kind = "string")

\* C29: a manifest whose poetry section holds an author or a dependency
\* that cannot be decoded makes NewConfigFromBytes return the decode error;
\* the call always returns.
C29_UndecodableReturnsError ==
    dpc = "done"
    => /\ dResult # "panic"
       /\ Undecodable(dInput) => dResult = "failed to decode pyproject.toml content"

\* The engine calls of a kind that goroutine i has made.
CallsOf(i, kind) == {k \in DOMAIN calls[i] : calls[i][k][1] = kind}

\* C30: Build returns only when every platform goroutine it started has
\* returned, each platform is converted at most once and solved at most
\* once, what Build returns is the aggregate result or an error, and, when
\* every step that can be taken is eventually taken, Build returns.
C30_ReturnsOnceAllTasksReturned ==
    /\ [](ret.done /\ bpc = "done"
          => /\ \A i \in Tasks : tpc[i] \in {"done", "failed"}
             /\ \/ ret.err # NoError /\ ret.result = NilResult
                \/ ret.err = NoError /\ ~ret.result.isNil)
    /\ [](\A i \in Tasks :
            /\ Cardinality(CallsOf(i, "convert")) <= 1
            /\ Cardinality(CallsOf(i, "solve")) <= 1
            /\ Len(calls[i]) <= 2)
    /\ <>(ret.done)

\* Build returned after two goroutines had each converted and solved their
\* platform once.
C30_Witness ==
    /\ ret.done
    /\ Cardinality(Tasks) = 2
    /\ \A i \in Tasks :
         /\ tpc[i] = "done"
         /\ Cardinality(CallsOf(i, "convert")) = 1
         /\ Cardinality(CallsOf(i, "solve")) = 1

====
